---- MODULE Spec2Model ----
(***************************************************************************)
(* A model of the alignment-interpretation engine of QUAST's contig        *)
(* analyzer (src/libs/contigs_analyzer.py, function plantakolya and its    *)
(* nested helpers).  The code is Python 2: "/" on two ints is the floor    *)
(* division and is modelled by \div.  Mapping.idy, a percentage with       *)
(* decimals, is kept in tenths of a percent.                               *)
(***************************************************************************)
EXTENDS Integers, Sequences, FiniteSets, TLC

Abs(x) == IF x < 0 THEN -x ELSE x
Min2(x, y) == IF x <= y THEN x ELSE y
Max2(x, y) == IF x >= y THEN x ELSE y

RECURSIVE SeqSum(_)
SeqSum(s) == IF s = <<>> THEN 0 ELSE Head(s) + SeqSum(Tail(s))

\* list.count(x)
Count(s, x) == Cardinality({k \in 1..Len(s) : s[k] = x})

(***************************************************************************)
(* class Misassembly                                                       *)
(***************************************************************************)
LOCAL_MIS == 0
RELOCATION == 1
TRANSLOCATION == 2
INVERSION == 3
INTERSPECTRANSLOCATION == 4
SCAFFOLD_GAP == 5
FRAGMENTED == 6
POTENTIALLY_MIS_CONTIGS == 7
POTENTIALLY_MISASSEMBLIES == 8

(***************************************************************************)
(* Bounds of the model and the configuration values (qconfig) it runs      *)
(* with.  The thresholds are scaled down together with the sequences; the  *)
(* order MAX_INDEL_LENGTH < smgap <= scaffolds_gap_threshold of the        *)
(* defaults (85 < 1000 <= 10000) is kept.                                  *)
(***************************************************************************)
RefLen == 6                    \* length of every reference sequence
CtgLen == 6                    \* contig length of the classification runs
AlnLen == 2                    \* length of the alignments of those runs
MAX_INDEL_LENGTH == 1          \* qconfig.MAX_INDEL_LENGTH
smgap == 3                     \* qconfig.extensive_misassembly_threshold
scaffolds_gap_threshold == 4   \* qconfig.scaffolds_gap_threshold
Ns_break_threshold == 2        \* qconfig.Ns_break_threshold
SHORT_INDEL_THRESHOLD == 1     \* qconfig.SHORT_INDEL_THRESHOLD
significant_part_size == 2     \* qconfig.significant_part_size
maxun == 2                     \* maxun of plantakolya (10)
oat == 1                       \* oat of plantakolya (25)
odgap == 1                     \* odgap of plantakolya (1000)
min_extensive_penalty == 2     \* the 50 of extensive_penalty
MinAlnLen == 2                 \* shortest alignment of a candidate list
MaxAlnLen == 4                 \* longest alignment of a candidate list
MaxAligns == 3                 \* longest list of alignments of a contig
DelCtgPos == 2                 \* contig position of the deletions of the SNP file
Unaligned == 5                 \* bases of a long contig beyond the candidates
ShiftOnRef == 2                \* shift on the reference of a local misassembly
SmallSize == 5                 \* size in bytes of a small assembly or reference file
LargeSize == 15                \* size in bytes of a large assembly or reference file
NAsm == 3                      \* assemblies given to do()
MaxRuns == 3                   \* runs of do() over one output directory
AsmContigs == 2                \* contigs of an assembly (CONTIGS of its report)
GapLen == 21                   \* bases between the alignments of a scaffold contig
ScaffoldAlnLen == 11           \* length of the alignments of a scaffold contig
SvStep == 300                  \* distance between the places of a long reference
MaxSVs == 3                    \* structural variations of one kind in a BED file

\* max_error of check_sv
max_error == 100
\* scaffold_gap_penalty of the best-set search
scaffold_gap_penalty == 5
\* epsilon, umt and ort of plantakolya, in percent
epsilon == 99
umt == 50
ort == 90

(***************************************************************************)
(* References: A and B are chromosomes of one reference genome, C belongs  *)
(* to another one (ref_labels_by_chromosomes).                             *)
(***************************************************************************)
RefNames == {"A", "B", "C"}
Groups == {"g1", "g2"}
ref_labels_by_chromosomes == [r \in RefNames |-> IF r = "C" THEN "g2" ELSE "g1"]
\* reg_lens[name] = len(references[name])
reg_lens == [r \in RefNames |-> RefLen]

(***************************************************************************)
(* class Mapping                                                           *)
(***************************************************************************)
Mapping(s1, e1, s2, e2, len1, len2, idy, ref, contig) ==
    [s1 |-> s1, e1 |-> e1, s2 |-> s2, e2 |-> e2, len1 |-> len1, len2 |-> len2,
     idy |-> idy, ref |-> ref, contig |-> contig]

\* Mapping.start: start on contig (always <= end)
start(a) == Min2(a.s2, a.e2)
\* Mapping.end: end on contig (always >= start)
end(a) == Max2(a.s2, a.e2)

\* contig_seq[lo:hi] of Python (0-based, hi excluded), as a sequence
Slice(sq, lo, hi) ==
    LET l == Max2(lo, 0)
        h == Min2(hi, Len(sq))
    IN  IF h <= l THEN <<>> ELSE [k \in 1..(h - l) |-> sq[l + k]]

(***************************************************************************)
(* distance_between_alignments: <<distance, cyclic_moment>>.  has_len is   *)
(* "cyclic_ref_len is not None".                                           *)
(***************************************************************************)
distance_between_alignments(align1, align2, pos_strand1, pos_strand2, has_len, cyclic_ref_len) ==
    LET distance == IF pos_strand1 \/ pos_strand2
                    THEN align2.s1 - align1.e1 - 1
                    ELSE align1.s1 - align2.e1 - 1
        cyclic_distance ==
            IF align1.e1 < align2.e1 /\ (cyclic_ref_len - align2.e1 + align1.s1 - 1) < smgap
            THEN distance + cyclic_ref_len * (IF pos_strand1 THEN -1 ELSE 1)
            ELSE IF align1.e1 >= align2.e1 /\ (cyclic_ref_len - align1.e1 + align2.s1 - 1) < smgap
            THEN distance + cyclic_ref_len * (IF pos_strand1 THEN 1 ELSE -1)
            ELSE distance
    IN  IF has_len /\ Abs(cyclic_distance) < Abs(distance)
        THEN <<cyclic_distance, TRUE>>
        ELSE <<distance, FALSE>>

\* check_chr_for_refs
check_chr_for_refs(chr1, chr2) ==
    ref_labels_by_chromosomes[chr1] = ref_labels_by_chromosomes[chr2]

\* gap_in_contig of count_not_ns_between_aligns and is_gap_filled_ns
gap_in_contig(contig_seq, align1, align2) ==
    Slice(contig_seq, Max2(align1.e2, align1.s2), Min2(align2.e2, align2.s2) - 1)

\* count_not_ns_between_aligns
count_not_ns_between_aligns(contig_seq, align1, align2) ==
    LET g == gap_in_contig(contig_seq, align1, align2)
    IN  Len(g) - Count(g, "N")

\* is_gap_filled_ns: count('N')/len is a division of two ints
is_gap_filled_ns(contig_seq, align1, align2) ==
    LET g == gap_in_contig(contig_seq, align1, align2)
    IN  IF Len(g) < Ns_break_threshold THEN FALSE
        ELSE (Count(g, "N") \div Len(g)) * 100 > 95

\* check_is_scaffold_gap
check_is_scaffold_gap(inconsistency, contig_seq, align1, align2) ==
    /\ Abs(inconsistency) <= scaffolds_gap_threshold
    /\ align1.ref = align2.ref
    /\ is_gap_filled_ns(contig_seq, align1, align2)
    /\ (align1.s2 < align1.e2) = (align2.s2 < align2.e2)

(***************************************************************************)
(* check_sv.  A structural variation is a pair <<bp1, bp2>> of breakpoints *)
(* [ref, s1, e1]; svs is [inversions, relocations, translocations].        *)
(***************************************************************************)
__match_ci(pos, sv) == sv.s1 - max_error <= pos /\ pos <= sv.e1 + max_error

\* max_gap of check_sv
max_gap == smgap \div 4

\* the while loop of check_sv going on whatever the next variation's start
RECURSIVE sv_chain_any_gap(_, _, _, _, _)
sv_chain_any_gap(variations, index_variation, prev_end, align1, align2) ==
    IF /\ index_variation <= Len(variations)
       /\ variations[index_variation][1].ref = align1.ref
    THEN IF __match_ci(align2.s1, variations[index_variation][2])
         THEN TRUE
         ELSE sv_chain_any_gap(variations, index_variation + 1,
                               variations[index_variation][2].e1, align1, align2)
    ELSE FALSE

\* the while loop that unites large deletions, from index_variation on
RECURSIVE sv_chain(_, _, _, _, _)
sv_chain(variations, index_variation, prev_end, align1, align2) ==
    IF /\ index_variation <= Len(variations)
       /\ variations[index_variation][1].s1 - prev_end <= max_gap
       /\ variations[index_variation][1].ref = align1.ref
    THEN IF __match_ci(align2.s1, variations[index_variation][2])
         THEN TRUE
         ELSE sv_chain(variations, index_variation + 1,
                       variations[index_variation][2].e1, align1, align2)
    ELSE FALSE

check_sv(a1, a2, inconsistency, svs) ==
    LET align1 == IF a2.s1 < a1.s1 THEN a2 ELSE a1
        align2 == IF a2.s1 < a1.s1 THEN a1 ELSE a2
    IN  IF align1.ref # align2.ref
        THEN \E k \in 1..Len(svs.translocations) :
                LET sv == svs.translocations[k]
                IN  \/ /\ sv[1].ref = align1.ref /\ sv[2].ref = align2.ref
                       /\ __match_ci(align1.e1, sv[1]) /\ __match_ci(align2.s1, sv[2])
                    \/ /\ sv[1].ref = align2.ref /\ sv[2].ref = align1.ref
                       /\ __match_ci(align2.e1, sv[1]) /\ __match_ci(align1.s1, sv[2])
        ELSE IF ((align1.s2 < align1.e2) # (align2.s2 < align2.e2)) /\ Abs(inconsistency) < smgap
        THEN \E k \in 1..Len(svs.inversions) :
                LET sv == svs.inversions[k]
                IN  \/ /\ align1.ref = sv[1].ref
                       /\ __match_ci(align1.s1, sv[1]) /\ __match_ci(align2.s1, sv[2])
                    \/ /\ __match_ci(align1.e1, sv[1]) /\ __match_ci(align2.e1, sv[2])
        ELSE \E k \in 1..Len(svs.relocations) :
                LET sv == svs.relocations[k]
                IN  /\ sv[1].ref = align1.ref
                    /\ __match_ci(align1.e1, sv[1])
                    /\ \/ __match_ci(align2.s1, sv[2])
                       \/ sv_chain(svs.relocations, k + 1, sv[2].e1, align1, align2)

(***************************************************************************)
(* is_misassembly: [is_ext, ...aux_data].  cyclic stands for               *)
(* "cyclic_ref_lens is not None"; svs_on for "region_struct_variations is  *)
(* not None" (the object has no __len__, so it is true whenever a BED file *)
(* was given).                                                             *)
(***************************************************************************)
\* near_ref_ends with "d < qconfig.MAX_INDEL_LENGTH"
near_ref_ends_strict(align1, align2) ==
    \A al \in {align1, align2} :
        Min2(Abs(al.e1 - reg_lens[al.ref]), Abs(al.s1 - 1)) < MAX_INDEL_LENGTH

\* the fake-translocation test of is_misassembly (reference is fragmented)
near_ref_ends(align1, align2) ==
    \A al \in {align1, align2} :
        Min2(Abs(al.e1 - reg_lens[al.ref]), Abs(al.s1 - 1)) <= MAX_INDEL_LENGTH

frag_distance(al) == Min2(Abs(al.e1 - reg_lens[al.ref]), Abs(al.s1 - 1))

is_misassembly(align1, align2, cfg, cyclic, contig_seq) ==
    LET distance_on_contig == Min2(align2.e2, align2.s2) - Max2(align1.e2, align1.s2) - 1
        dc == distance_between_alignments(align1, align2, align1.s2 < align1.e2,
                  align2.s2 < align2.e2, cyclic /\ align1.ref = align2.ref,
                  reg_lens[align1.ref])
        distance_on_reference == dc[1]
        cyclic_moment == dc[2]
        misassembly_internal_overlap ==
            IF distance_on_contig < 0
            THEN IF distance_on_reference >= 0 THEN -distance_on_contig
                 ELSE IF (-distance_on_reference) < (-distance_on_contig)
                      THEN distance_on_reference - distance_on_contig
                      ELSE 0
            ELSE 0
        strand1_0 == align1.s2 < align1.e2
        strand2 == align2.s2 < align2.e2
        inconsistency_0 == distance_on_reference - distance_on_contig
        is_gap == cfg.scaffolds /\ contig_seq # <<>>
                  /\ check_is_scaffold_gap(inconsistency_0, contig_seq, align1, align2)
        is_fake_transl == /\ align1.ref # align2.ref
                          /\ ~(cfg.is_combined_ref /\ ~check_chr_for_refs(align1.ref, align2.ref))
                          /\ cfg.check_for_fragmented_ref
                          /\ near_ref_ends(align1, align2)
        is_translocation == align1.ref # align2.ref /\ ~is_fake_transl
        inconsistency == IF is_fake_transl
                         THEN frag_distance(align1) + frag_distance(align2)
                         ELSE inconsistency_0
        strand1 == IF is_fake_transl THEN strand2 ELSE strand1_0
        is_sv == cfg.svs_on /\ check_sv(align1, align2, inconsistency, cfg.svs)
        aux(inc, sv, tr, gap) ==
            [inconsistency |-> inc, distance_on_contig |-> distance_on_contig,
             misassembly_internal_overlap |-> misassembly_internal_overlap,
             cyclic_moment |-> cyclic_moment, is_sv |-> sv, is_translocation |-> tr,
             is_scaffold_gap |-> gap]
    IN  IF is_gap
        THEN [is_ext |-> FALSE, aux |-> aux(inconsistency_0, FALSE, FALSE, TRUE)]
        ELSE IF is_sv
        THEN [is_ext |-> FALSE, aux |-> aux(inconsistency, TRUE, is_translocation, FALSE)]
        ELSE IF align1.ref # align2.ref /\ ~is_translocation
        THEN [is_ext |-> FALSE, aux |-> aux(inconsistency, FALSE, is_translocation, FALSE)]
        ELSE IF align1.ref # align2.ref \/ Abs(inconsistency) > smgap \/ strand1 # strand2
        THEN [is_ext |-> TRUE, aux |-> aux(inconsistency, FALSE, is_translocation, FALSE)]
        ELSE [is_ext |-> FALSE, aux |-> aux(inconsistency, FALSE, is_translocation, FALSE)]

(***************************************************************************)
(* exclude_internal_overlaps: <<align1', align2', decrease of align1.len2>>*)
(***************************************************************************)
__shift_start(align, new_start) ==
    LET a == IF align.s2 < align.e2
             THEN [align EXCEPT !.s1 = align.s1 + (new_start - align.s2),
                                !.s2 = new_start,
                                !.len2 = align.e2 - new_start + 1]
             ELSE [align EXCEPT !.e1 = align.e1 - (new_start - align.e2),
                                !.e2 = new_start,
                                !.len2 = align.s2 - new_start + 1]
    IN  [a EXCEPT !.len1 = a.e1 - a.s1 + 1]

__shift_end(align, new_end) ==
    LET a == IF align.s2 < align.e2
             THEN [align EXCEPT !.e1 = align.e1 - (align.e2 - new_end),
                                !.e2 = new_end,
                                !.len2 = new_end - align.s2 + 1]
             ELSE [align EXCEPT !.s1 = align.s1 + (align.s2 - new_end),
                                !.s2 = new_end,
                                !.len2 = new_end - align.e2 + 1]
    IN  [a EXCEPT !.len1 = a.e1 - a.s1 + 1]

\* exclude_internal_overlaps with a strict comparison of the lengths: of two
\* alignments of equal length the first one is trimmed
exclude_internal_overlaps_first_on_tie(align1, align2, ambiguity_usage) ==
    LET distance_on_contig == Min2(align2.e2, align2.s2) - Max2(align1.e2, align1.s2) - 1
    IN  IF ambiguity_usage = "all" THEN <<align1, align2, 0>>
        ELSE IF distance_on_contig >= 0 THEN <<align1, align2, 0>>
        ELSE IF ambiguity_usage = "one"
        THEN IF align1.len2 > align2.len2
             THEN <<align1, __shift_start(align2, Max2(align1.e2, align1.s2) + 1), 0>>
             ELSE LET n1 == __shift_end(align1, Min2(align2.e2, align2.s2) - 1)
                  IN  <<n1, align2, align1.len2 - n1.len2>>
        ELSE LET new_end == Min2(align2.e2, align2.s2) - 1
                 n2 == __shift_start(align2, Max2(align1.e2, align1.s2) + 1)
                 n1 == __shift_end(align1, new_end)
             IN  <<n1, n2, align1.len2 - n1.len2>>

exclude_internal_overlaps(align1, align2, ambiguity_usage) ==
    LET distance_on_contig == Min2(align2.e2, align2.s2) - Max2(align1.e2, align1.s2) - 1
    IN  IF ambiguity_usage = "all" THEN <<align1, align2, 0>>
        ELSE IF distance_on_contig >= 0 THEN <<align1, align2, 0>>
        ELSE IF ambiguity_usage = "one"
        THEN IF align1.len2 >= align2.len2
             THEN <<align1, __shift_start(align2, Max2(align1.e2, align1.s2) + 1), 0>>
             ELSE LET n1 == __shift_end(align1, Min2(align2.e2, align2.s2) - 1)
                  IN  <<n1, align2, align1.len2 - n1.len2>>
        ELSE LET new_end == Min2(align2.e2, align2.s2) - 1
                 n2 == __shift_start(align2, Max2(align1.e2, align1.s2) + 1)
                 n1 == __shift_end(align1, new_end)
             IN  <<n1, n2, align1.len2 - n1.len2>>


(***************************************************************************)
(* calculate_unaligned_part and check_for_potential_translocation: the     *)
(* events they append to region_misassemblies.                             *)
(***************************************************************************)
\* calculate_unaligned_part: <<possible_misassembly, the events appended>>
calculate_unaligned_part(seq, align, is_intermediate_align) ==
    LET unaligned_len == Len(seq)
        count_ns == Count(seq, "N")
    IN  IF 100 * count_ns < 95 * unaligned_len
           /\ unaligned_len - count_ns >= significant_part_size
        THEN <<1, IF is_intermediate_align
                  THEN <<POTENTIALLY_MISASSEMBLIES, POTENTIALLY_MISASSEMBLIES>>
                  ELSE <<POTENTIALLY_MISASSEMBLIES>>>>
        ELSE <<0, <<>>>>

\* the for loop of check_for_potential_translocation from the k-th alignment
\* on: <<misassemblies_count, the events appended, prev_end>>
RECURSIVE potential_parts(_, _, _, _, _)
potential_parts(seq, sorted_aligns, k, prev_end, acc) ==
    IF k > Len(sorted_aligns) THEN <<acc[1], acc[2], prev_end>>
    ELSE LET align == sorted_aligns[k]
             part == IF start(align) > prev_end + 1
                     THEN calculate_unaligned_part(Slice(seq, prev_end + 1, start(align)),
                                                   align, k > 1)
                     ELSE <<0, <<>>>>
         IN  potential_parts(seq, sorted_aligns, k + 1, end(align),
                             <<acc[1] + part[1], acc[2] \o part[2]>>)

check_for_potential_translocation(seq, ctg_len, sorted_aligns) ==
    LET loop == potential_parts(seq, sorted_aligns, 1, 1, <<0, <<>>>>)
        prev_end == loop[3]
        tail == IF ctg_len > prev_end + 1
                THEN calculate_unaligned_part(Slice(seq, prev_end + 1, ctg_len),
                                              sorted_aligns[Len(sorted_aligns)], FALSE)
                ELSE <<0, <<>>>>
    IN  loop[2] \o tail[2] \o
        (IF loop[1] + tail[1] = 0 THEN <<>> ELSE <<POTENTIALLY_MIS_CONTIGS>>)

(***************************************************************************)
(* Sorting.  sorted() of Python is stable.                                 *)
(***************************************************************************)
\* the elements of s at the positions P, in the order of s
Pick(s, P) ==
    [n \in 1..Cardinality(P) |->
        s[CHOOSE p \in P : Cardinality({q \in P : q < p}) = n - 1]]

\* key=lambda x: (x.len2 * x.idy, x.len2), reverse=True
quality_ge(a, b) ==
    \/ a.len2 * a.idy > b.len2 * b.idy
    \/ a.len2 * a.idy = b.len2 * b.idy /\ a.len2 >= b.len2

RECURSIVE sorted_by_quality(_)
sorted_by_quality(s) ==
    IF s = <<>> THEN <<>>
    ELSE LET front == sorted_by_quality(SubSeq(s, 1, Len(s) - 1))
             x == s[Len(s)]
             k == Cardinality({j \in 1..Len(front) : quality_ge(front[j], x)})
         IN  SubSeq(front, 1, k) \o <<x>> \o SubSeq(front, k + 1, Len(front))

\* key=lambda x: x.end()
RECURSIVE sorted_by_end(_)
sorted_by_end(s) ==
    IF s = <<>> THEN <<>>
    ELSE LET front == sorted_by_end(SubSeq(s, 1, Len(s) - 1))
             x == s[Len(s)]
             k == Cardinality({j \in 1..Len(front) : end(front[j]) <= end(x)})
         IN  SubSeq(front, 1, k) \o <<x>> \o SubSeq(front, k + 1, Len(front))

\* key=lambda x: (min(x.s2, x.e2), max(x.s2, x.e2))
position_le(a, b) ==
    \/ start(a) < start(b)
    \/ start(a) = start(b) /\ end(a) <= end(b)

RECURSIVE sorted_by_position(_)
sorted_by_position(s) ==
    IF s = <<>> THEN <<>>
    ELSE LET front == sorted_by_position(SubSeq(s, 1, Len(s) - 1))
             x == s[Len(s)]
             k == Cardinality({j \in 1..Len(front) : position_le(front[j], x)})
         IN  SubSeq(front, 1, k) \o <<x>> \o SubSeq(front, k + 1, Len(front))

(***************************************************************************)
(* The top hit (lines 903-919): is the contig captured by it, and which    *)
(* alignments share its length and identity.                               *)
(***************************************************************************)
\* "top_len > ctg_len * epsilon or ctg_len - top_len < maxun"
top_hit_captures(top_len, ctg_len) ==
    100 * top_len > ctg_len * epsilon \/ ctg_len - top_len < maxun

\* the while loop that grabs alignments into top_aligns: how many it takes
RECURSIVE grab_top_aligns(_, _, _)
grab_top_aligns(sorted_aligns, top_len, top_id) ==
    IF sorted_aligns # <<>>
       /\ 100 * (sorted_aligns[1].len2 * sorted_aligns[1].idy) > epsilon * (top_len * top_id)
    THEN 1 + grab_top_aligns(Tail(sorted_aligns), top_len, top_id)
    ELSE 0

\* the handling of an ambiguously mapped contig with every policy but "none"
\* behaving like "all"
ambiguous_contig_one_as_all(top_aligns, ambiguity_usage) ==
    IF ambiguity_usage = "none"
    THEN [kept |-> <<>>, ambiguous |-> FALSE, lengths |-> <<>>,
          extra_bases |-> -top_aligns[1].len2]
    ELSE [kept |-> top_aligns, ambiguous |-> TRUE, lengths |-> <<top_aligns[1].len2>>,
          extra_bases |-> -top_aligns[1].len2
                          + SeqSum([k \in 1..Len(top_aligns) |-> top_aligns[k].len2])]

\* the handling of an ambiguously mapped contig (more than one top align):
\* the alignments kept, whether they are written as ambiguous, what is
\* appended to aligned_lengths and added to ambiguous_contigs_extra_bases
ambiguous_contig(top_aligns, ambiguity_usage) ==
    IF ambiguity_usage = "none"
    THEN [kept |-> <<>>, ambiguous |-> FALSE, lengths |-> <<>>,
          extra_bases |-> -top_aligns[1].len2]
    ELSE IF ambiguity_usage = "one"
    THEN [kept |-> <<top_aligns[1]>>, ambiguous |-> FALSE,
          lengths |-> <<top_aligns[1].len2>>, extra_bases |-> -top_aligns[1].len2]
    ELSE [kept |-> top_aligns, ambiguous |-> TRUE, lengths |-> <<top_aligns[1].len2>>,
          extra_bases |-> -top_aligns[1].len2
                          + SeqSum([k \in 1..Len(top_aligns) |-> top_aligns[k].len2])]

(***************************************************************************)
(* The best-set search (lines 988-1145).  Indexes are kept 1-based.        *)
(***************************************************************************)
\* int(round(num / den)) for num >= 0: Python 2 rounds half away from zero
round_div(num, den) == (2 * num + den) \div (2 * den)

\* max(50, int(round(min(extensive_misassembly_threshold / 4.0, ctg_len * 0.05)))) - 1
extensive_penalty(ctg_len) ==
    Max2(min_extensive_penalty, round_div(Min2(5 * smgap, ctg_len), 20)) - 1

\* max(2, int(round(min(MAX_INDEL_LENGTH / 2.0, ctg_len * 0.01)))) - 1
local_penalty(ctg_len) ==
    Max2(2, round_div(Min2(50 * MAX_INDEL_LENGTH, ctg_len), 100)) - 1

\* the while loop of __get_added_len; k is -last_align_idx
RECURSIVE added_left_loop(_, _, _, _, _)
added_left_loop(set_aligns, cur_align, k, last_align, added_left) ==
    IF start(cur_align) < start(last_align)
    THEN LET added1 == added_left + (start(last_align) - start(cur_align))
         IN  IF k + 1 <= Len(set_aligns)
             THEN LET prev_start == start(last_align)
                      la == set_aligns[Len(set_aligns) - k]
                  IN  added_left_loop(set_aligns, cur_align, k + 1, la,
                          added1 - Max2(0, Min2(prev_start, end(la)) - start(cur_align) + 1))
             ELSE added1
    ELSE added_left

__get_added_len(set_aligns, cur_align) ==
    LET last_align == set_aligns[Len(set_aligns) - 1]
        added_right == end(cur_align) - Max2(start(cur_align), end(last_align))
    IN  added_right + added_left_loop(set_aligns, cur_align, 2, last_align, 0)

\* the penalty __get_score takes for the pair (align1, align2)
pair_penalty(align1, align2, cfg_, seq) ==
    LET r == is_misassembly(align1, align2, cfg_, cfg_.cyclic, seq)
    IN  IF r.is_ext THEN extensive_penalty(Len(seq))
        ELSE IF Abs(r.aux.inconsistency) > MAX_INDEL_LENGTH /\ ~r.aux.is_scaffold_gap
        THEN local_penalty(Len(seq))
        ELSE IF r.aux.is_scaffold_gap THEN scaffold_gap_penalty
        ELSE 0

\* __get_score: <<score, uncovered_len>>
__get_score(score, aligns, cfg_, seq, uncovered_len) ==
    IF Len(aligns) > 1
    THEN LET added_len == __get_added_len(aligns, aligns[Len(aligns)])
             penalty == pair_penalty(aligns[Len(aligns) - 1], aligns[Len(aligns)], cfg_, seq)
         IN  <<score + added_len - penalty, uncovered_len - added_len>>
    ELSE <<score + aligns[Len(aligns)].len2, uncovered_len - aligns[Len(aligns)].len2>>

\* class ScoredAlignSet
ScoredAlignSet(score, indexes, uncovered) ==
    [score |-> score, indexes |-> indexes, uncovered |-> uncovered]

\* the loop "for scored_set in all_scored_sets" for the alignment at idx, from
\* the j-th set on; st is [cur_max_score, new_scored_set (a sequence of at
\* most one set), sets_to_remove (positions in all_scored_sets)]
RECURSIVE scan_scored_sets(_, _, _, _, _, _, _, _)
scan_scored_sets(sets, j, idx_, sorted_aligns, cfg_, seq, max_score_, st) ==
    IF j > Len(sets) THEN st
    ELSE LET scored_set == sets[j]
             align == sorted_aligns[idx_]
             cur_set_aligns == [k \in 1..Len(scored_set.indexes) |->
                                   sorted_aligns[scored_set.indexes[k]]] \o <<align>>
             su == __get_score(scored_set.score, cur_set_aligns, cfg_, seq,
                               scored_set.uncovered)
             st1 == IF scored_set.score + align.len2 > st.cur_max_score
                    THEN IF su[1] + su[2] < max_score_
                         THEN [st EXCEPT !.sets_to_remove = @ \cup {j}]
                         ELSE IF su[1] > st.cur_max_score
                         THEN [st EXCEPT !.cur_max_score = su[1],
                                         !.new_scored_set =
                                             <<ScoredAlignSet(su[1],
                                                   Append(scored_set.indexes, idx_), su[2])>>]
                         ELSE st
                    ELSE st
         IN  scan_scored_sets(sets, j + 1, idx_, sorted_aligns, cfg_, seq, max_score_, st1)

(***************************************************************************)
(* Extra skipping of redundant alignments (lines 1194-1217) and the count  *)
(* of the aligned bases of the contig (lines 1224-1233).                   *)
(***************************************************************************)
\* the for loop with "gap <= oat" for "gap < oat"
RECURSIVE extra_skipping_gap_le(_, _, _, _)
extra_skipping_gap_le(sorted_aligns, k, prev_end, skipped) ==
    IF k > Len(sorted_aligns) - 1 THEN skipped
    ELSE LET cur == sorted_aligns[k]
             succ_start == start(sorted_aligns[k + 1])
             gap == succ_start - prev_end - 1
             overlap == Max2(0, prev_end - start(cur) + 1) + Max2(0, end(cur) - succ_start + 1)
         IN  IF gap > odgap
             THEN extra_skipping_gap_le(sorted_aligns, k + 1, end(cur), skipped)
             ELSE IF gap <= oat \/ 100 * overlap > ort * cur.len2
             THEN extra_skipping_gap_le(sorted_aligns, k + 1, prev_end, skipped \cup {k})
             ELSE extra_skipping_gap_le(sorted_aligns, k + 1, end(cur), skipped)

\* the for loop over i = k - 1: the positions of the alignments it removes
RECURSIVE extra_skipping(_, _, _, _)
extra_skipping(sorted_aligns, k, prev_end, skipped) ==
    IF k > Len(sorted_aligns) - 1 THEN skipped
    ELSE LET cur == sorted_aligns[k]
             succ_start == start(sorted_aligns[k + 1])
             gap == succ_start - prev_end - 1
             overlap == Max2(0, prev_end - start(cur) + 1) + Max2(0, end(cur) - succ_start + 1)
         IN  IF gap > odgap
             THEN extra_skipping(sorted_aligns, k + 1, end(cur), skipped)
             ELSE IF gap < oat \/ 100 * overlap > ort * cur.len2
             THEN extra_skipping(sorted_aligns, k + 1, prev_end, skipped \cup {k})
             ELSE extra_skipping(sorted_aligns, k + 1, end(cur), skipped)

\* one iteration of the count of the aligned bases of the contig:
\* <<aligned_bases_in_contig, last_e2>> after cur_align
count_aligned_bases(bases, e2, cur_align) ==
    IF Max2(cur_align.s2, cur_align.e2) <= e2 THEN <<bases, e2>>
    ELSE IF Min2(cur_align.s2, cur_align.e2) > e2
    THEN <<bases + Abs(cur_align.e2 - cur_align.s2) + 1, Max2(cur_align.s2, cur_align.e2)>>
    ELSE <<bases + Max2(cur_align.s2, cur_align.e2) - e2, Max2(cur_align.s2, cur_align.e2)>>

\* the sum of the contig lengths of the alignments, overlaps counted twice
sum_all_aligned_bases(sorted_aligns, k, acc) ==
    <<SeqSum([j \in 1..Len(sorted_aligns) |-> sorted_aligns[j].len2]), 0>>

RECURSIVE count_all_aligned_bases(_, _, _)
count_all_aligned_bases(sorted_aligns, k, acc) ==
    IF k > Len(sorted_aligns) THEN acc
    ELSE count_all_aligned_bases(sorted_aligns, k + 1,
                                 count_aligned_bases(acc[1], acc[2], sorted_aligns[k]))

(***************************************************************************)
(* State.  One behaviour is the processing of one contig by plantakolya,   *)
(* followed by save_result.  sorted_aligns is the variable of that name:   *)
(* the alignments of the contig, then the candidates of the best-set       *)
(* search sorted by end, then the chosen alignments sorted by position,    *)
(* which process_misassembled_contig mutates in place.                     *)
(***************************************************************************)
VARIABLES
    cfg,                       \* qconfig values and the SV table of the run
    contig_seq,                \* seq: the contig, a sequence of "A" / "N"
    aligns,                    \* aligns[contig], as loaded
    sorted_aligns,
    pc,                        \* "select" | "best" | "walk" | "last" | "AssertionError"
                               \* | "done" | "reported"
    idx,                       \* alignments done by the best-set search
    all_scored_sets,
    max_score,
    best_set,
    i,                         \* pairs done by process_misassembled_contig
    last,                      \* the pair and the verdict of the last iteration
    cur_aligned_length,
    contig_aligned_length,
    aligned_lengths,
    region_misassemblies,
    misassemblies_matched_sv,
    references_misassemblies,
    is_misassembled,
    misassembled_contigs,      \* the dict, as the set of its pairs <<contig, length>>
    misassembly_internal_overlap,
    indels_info,
    ref_aligns,
    ref_features,
    coords_filtered,           \* records written to coords_filtered_file
    icarus_out,                \* lines written to icarus_out_f
    next_align,
    aligned_bases_in_contig,
    ambiguous_contigs,
    ambiguous_contigs_extra_bases,
    partially_unaligned,
    partially_unaligned_bases,
    partially_unaligned_with_misassembly,
    partially_unaligned_with_significant_parts,
    report,                    \* fields of the report written by save_result
    snps,                      \* snps[ref][contig]: reference position -> SNPs
    region_covered,
    current,                   \* the alignment pulled by the coverage walk
    negative,
    end_flag,                  \* the local variable "end" of the coverage walk
    counter,                   \* alignments counted by the coverage walk
    used_snps,                 \* lines written to used_snps_file, with counter
    env,                       \* the run of do(): options, file sizes, what the tools do
    files,                     \* nucmer_output: .sf, .coords and .all_snps of each assembly
    pool,                      \* the workers of Parallel and what they returned
    do_out                     \* what do() has returned or raised, and the reports

vars == <<cfg, contig_seq, aligns, sorted_aligns, pc, idx, all_scored_sets, max_score,
          best_set, i, last, cur_aligned_length, contig_aligned_length, aligned_lengths,
          region_misassemblies, misassemblies_matched_sv, references_misassemblies,
          is_misassembled, misassembled_contigs, misassembly_internal_overlap,
          indels_info, ref_aligns, ref_features, coords_filtered, icarus_out, next_align,
          aligned_bases_in_contig, ambiguous_contigs, ambiguous_contigs_extra_bases,
          partially_unaligned, partially_unaligned_bases,
          partially_unaligned_with_misassembly,
          partially_unaligned_with_significant_parts, report, snps, region_covered,
          current, negative, end_flag, counter, used_snps, env, files, pool, do_out>>

\* what the best-set search reads and writes
search_vars == <<idx, all_scored_sets, max_score, best_set>>
\* what process_misassembled_contig reads and writes, but the lists it appends to
walk_vars == <<i, last, cur_aligned_length, contig_aligned_length,
               misassemblies_matched_sv, references_misassemblies, is_misassembled,
               misassembly_internal_overlap, indels_info, ref_features, next_align>>
ambiguous_vars == <<ambiguous_contigs, ambiguous_contigs_extra_bases>>
\* what the coverage walk reads and writes
coverage_vars == <<snps, region_covered, current, negative, end_flag, counter, used_snps>>

\* what do() and the loading of the aligner's files read and write
do_vars == <<env, files, pool, do_out>>

\* what the analysis of a contig reads and writes
analysis_vars ==
    <<cfg, contig_seq, aligns, sorted_aligns, pc, search_vars, i, last, cur_aligned_length,
      contig_aligned_length, aligned_lengths, region_misassemblies,
      misassemblies_matched_sv, references_misassemblies, is_misassembled,
      misassembled_contigs, misassembly_internal_overlap, indels_info, ref_aligns,
      ref_features, coords_filtered, icarus_out, next_align, aligned_bases_in_contig,
      ambiguous_contigs, ambiguous_contigs_extra_bases, partially_unaligned,
      partially_unaligned_bases, partially_unaligned_with_misassembly,
      partially_unaligned_with_significant_parts, report, coverage_vars>>
unaligned_vars == <<partially_unaligned, partially_unaligned_bases,
                    partially_unaligned_with_misassembly,
                    partially_unaligned_with_significant_parts>>

\* class IndelsInfo
IndelsInfo == [mismatches |-> 0, insertions |-> 0, deletions |-> 0, indels_list |-> <<>>]

\* the lines of icarus_out_f that name the verdict on a pair
FAKE_SV == "fake misassembly (structural variations of genome)"
FAKE_SCAFFOLD_GAP == "fake misassembly (scaffold gap size misassembly)"
FAKE_CYCLIC == "fake misassembly (linear representation of circular genome)"
FAKE_FRAGMENTED == "fake misassembly (fragmentation of reference genome)"
FAKE_INDEL == "fake misassembly (gap in the contig is small or filled with Ns)"
Labels == {FAKE_SV, FAKE_SCAFFOLD_GAP, FAKE_CYCLIC, FAKE_FRAGMENTED, FAKE_INDEL,
           "interspecies translocation", "translocation", "relocation", "inversion",
           "local misassembly"}

AlignLine(a) == [line |-> "alignment", align |-> a]
LabelLine(l) == [line |-> l]

\* "qconfig.meta and ref_labels_by_chromosomes": the dict is filled for the
\* combined reference only
meta_with_labels(cfg_) == cfg_.meta /\ cfg_.is_combined_ref

\* ref_aligns.setdefault(align.ref, []).append(align) for every align of s
RECURSIVE append_ref_aligns(_, _)
append_ref_aligns(ra, s) ==
    IF s = <<>> THEN ra
    ELSE append_ref_aligns([ra EXCEPT ![Head(s).ref] = Append(@, Head(s))], Tail(s))

(***************************************************************************)
(* The if / elif chain of the loop body of process_misassembled_contig,    *)
(* on the pair as it is after exclude_internal_overlaps: what it writes.   *)
(***************************************************************************)
NoEvent == [labels |-> <<>>, mis |-> <<>>, sv |-> 0, ext |-> FALSE, brk |-> FALSE,
            inter |-> FALSE, mismatches |-> 0, insertions |-> 0, deletions |-> 0,
            indels |-> <<>>]

\* extensive_event with "abs(inconsistency) >= smgap" for the relocation test
extensive_event_ge(a1, a2, aux, cfg_) ==
    LET base == [labels |-> <<>>, mis |-> <<>>, sv |-> 0, ext |-> TRUE, brk |-> TRUE,
                 inter |-> FALSE, mismatches |-> 0, insertions |-> 0, deletions |-> 0,
                 indels |-> <<>>]
    IN  IF a1.ref # a2.ref /\ aux.is_translocation
        THEN IF cfg_.is_combined_ref /\ ~check_chr_for_refs(a1.ref, a2.ref)
             THEN [base EXCEPT !.labels = <<"interspecies translocation">>,
                               !.mis = <<INTERSPECTRANSLOCATION>>, !.inter = TRUE]
             ELSE [base EXCEPT !.labels = <<"translocation">>, !.mis = <<TRANSLOCATION>>]
        ELSE IF Abs(aux.inconsistency) >= smgap
        THEN [base EXCEPT !.labels = <<"relocation">>, !.mis = <<RELOCATION>>]
        ELSE [base EXCEPT !.labels = <<"inversion">>, !.mis = <<INVERSION>>]

\* the branch "elif is_extensive_misassembly and not is_sv"
extensive_event(a1, a2, aux, cfg_) ==
    LET base == [NoEvent EXCEPT !.ext = TRUE, !.brk = TRUE]
    IN  IF a1.ref # a2.ref /\ aux.is_translocation
        THEN IF cfg_.is_combined_ref /\ ~check_chr_for_refs(a1.ref, a2.ref)
             THEN [base EXCEPT !.labels = <<"interspecies translocation">>,
                               !.mis = <<INTERSPECTRANSLOCATION>>, !.inter = TRUE]
             ELSE [base EXCEPT !.labels = <<"translocation">>, !.mis = <<TRANSLOCATION>>]
        ELSE IF Abs(aux.inconsistency) > smgap
        THEN [base EXCEPT !.labels = <<"relocation">>, !.mis = <<RELOCATION>>]
        ELSE [base EXCEPT !.labels = <<"inversion">>, !.mis = <<INVERSION>>]

\* minor_event whose last branch is "elif inconsistency < 0"
minor_event_overlap_only(a1, a2, aux, cfg_, seq_) ==
    LET none == [labels |-> <<>>, mis |-> <<>>, sv |-> 0, ext |-> FALSE, brk |-> FALSE,
                 inter |-> FALSE, mismatches |-> 0, insertions |-> 0, deletions |-> 0,
                 indels |-> <<>>]
        not_ns_number == count_not_ns_between_aligns(seq_, a1, a2)
        inconsistency == aux.inconsistency
        indel_length == Abs(inconsistency)
        mismatches == Max2(0, not_ns_number - indel_length)
    IN  IF inconsistency = 0 /\ aux.cyclic_moment
        THEN [none EXCEPT !.labels = <<FAKE_CYCLIC>>]
        ELSE IF cfg_.check_for_fragmented_ref /\ a1.ref # a2.ref /\ ~aux.is_translocation
        THEN [none EXCEPT !.labels = <<FAKE_FRAGMENTED>>, !.mis = <<FRAGMENTED>>]
        ELSE IF Abs(inconsistency) <= MAX_INDEL_LENGTH /\ not_ns_number <= MAX_INDEL_LENGTH
        THEN IF inconsistency = 0
             THEN [none EXCEPT !.labels = <<FAKE_INDEL>>, !.mismatches = not_ns_number]
             ELSE [none EXCEPT !.labels = <<FAKE_INDEL>>,
                               !.indels = <<indel_length>>,
                               !.insertions = IF inconsistency < 0 THEN indel_length ELSE 0,
                               !.deletions = IF inconsistency < 0 THEN 0 ELSE indel_length,
                               !.mismatches = mismatches]
        ELSE IF inconsistency < 0
        THEN [none EXCEPT !.labels = <<"local misassembly">>, !.mis = <<LOCAL_MIS>>,
                          !.brk = cfg_.strict_NA]
        ELSE none

\* minor_event that takes a positive inconsistency for an insertion
minor_event_gap_as_insertion(a1, a2, aux, cfg_, seq_) ==
    LET not_ns_number == count_not_ns_between_aligns(seq_, a1, a2)
        inconsistency == aux.inconsistency
        indel_length == Abs(inconsistency)
        mismatches == Max2(0, not_ns_number - indel_length)
    IN  IF inconsistency = 0 /\ aux.cyclic_moment
        THEN [NoEvent EXCEPT !.labels = <<FAKE_CYCLIC>>]
        ELSE IF cfg_.check_for_fragmented_ref /\ a1.ref # a2.ref /\ ~aux.is_translocation
        THEN [NoEvent EXCEPT !.labels = <<FAKE_FRAGMENTED>>, !.mis = <<FRAGMENTED>>]
        ELSE IF Abs(inconsistency) <= MAX_INDEL_LENGTH /\ not_ns_number <= MAX_INDEL_LENGTH
        THEN IF inconsistency = 0
             THEN [NoEvent EXCEPT !.labels = <<FAKE_INDEL>>, !.mismatches = not_ns_number]
             ELSE [NoEvent EXCEPT !.labels = <<FAKE_INDEL>>,
                                  !.indels = <<indel_length>>,
                                  !.insertions = IF inconsistency > 0 THEN indel_length ELSE 0,
                                  !.deletions = IF inconsistency > 0 THEN 0 ELSE indel_length,
                                  !.mismatches = mismatches]
        ELSE [NoEvent EXCEPT !.labels = <<"local misassembly">>, !.mis = <<LOCAL_MIS>>,
                             !.brk = cfg_.strict_NA]

\* the branch "elif not is_sv"
minor_event(a1, a2, aux, cfg_, seq_) ==
    LET not_ns_number == count_not_ns_between_aligns(seq_, a1, a2)
        inconsistency == aux.inconsistency
        indel_length == Abs(inconsistency)
        mismatches == Max2(0, not_ns_number - indel_length)
    IN  IF inconsistency = 0 /\ aux.cyclic_moment
        THEN [NoEvent EXCEPT !.labels = <<FAKE_CYCLIC>>]
        ELSE IF cfg_.check_for_fragmented_ref /\ a1.ref # a2.ref /\ ~aux.is_translocation
        THEN [NoEvent EXCEPT !.labels = <<FAKE_FRAGMENTED>>, !.mis = <<FRAGMENTED>>]
        ELSE IF Abs(inconsistency) <= MAX_INDEL_LENGTH /\ not_ns_number <= MAX_INDEL_LENGTH
        THEN IF inconsistency = 0
             THEN [NoEvent EXCEPT !.labels = <<FAKE_INDEL>>, !.mismatches = not_ns_number]
             ELSE [NoEvent EXCEPT !.labels = <<FAKE_INDEL>>,
                                  !.indels = <<indel_length>>,
                                  !.insertions = IF inconsistency < 0 THEN indel_length ELSE 0,
                                  !.deletions = IF inconsistency < 0 THEN 0 ELSE indel_length,
                                  !.mismatches = mismatches]
        ELSE [NoEvent EXCEPT !.labels = <<"local misassembly">>, !.mis = <<LOCAL_MIS>>,
                             !.brk = cfg_.strict_NA]

\* pair_event that looks the pair up in the SV table itself
pair_event_sv_first(a1, a2, is_extensive_misassembly, aux, cfg_, seq_) ==
    IF aux.is_sv \/ (cfg_.svs_on /\ check_sv(a1, a2, aux.inconsistency, cfg_.svs))
    THEN [NoEvent EXCEPT !.labels = <<FAKE_SV>>, !.sv = 1]
    ELSE IF cfg_.scaffolds /\ aux.is_scaffold_gap
    THEN [NoEvent EXCEPT !.labels = <<FAKE_SCAFFOLD_GAP>>, !.mis = <<SCAFFOLD_GAP>>]
    ELSE IF is_extensive_misassembly
    THEN extensive_event(a1, a2, aux, cfg_)
    ELSE minor_event(a1, a2, aux, cfg_, seq_)

pair_event(a1, a2, is_extensive_misassembly, aux, cfg_, seq_) ==
    IF aux.is_sv
    THEN [NoEvent EXCEPT !.labels = <<FAKE_SV>>, !.sv = 1]
    ELSE IF cfg_.scaffolds /\ aux.is_scaffold_gap
    THEN [NoEvent EXCEPT !.labels = <<FAKE_SCAFFOLD_GAP>>, !.mis = <<SCAFFOLD_GAP>>]
    ELSE IF is_extensive_misassembly /\ ~aux.is_sv
    THEN extensive_event(a1, a2, aux, cfg_)
    ELSE IF ~aux.is_sv
    THEN minor_event(a1, a2, aux, cfg_, seq_)
    ELSE NoEvent

\* add_interspecies without its second increment
add_interspecies_one_side(m, ref1, ref2) == [m EXCEPT ![ref1][ref2] = @ + 1]

\* the two increments of references_misassemblies for an interspecies translocation
add_interspecies(m, ref1, ref2) ==
    LET m1 == [m EXCEPT ![ref1][ref2] = @ + 1]
    IN  [m1 EXCEPT ![ref2][ref1] = @ + 1]

\* str(prev) if prev were a copy taken when it was assigned, as next_align is
str_prev_copied(copied, align) == copied
\* str(prev) of lines 661 and 781: prev is the object sorted_aligns[i] itself
\* (lines 636 and 773), so the record shows it as exclude_internal_overlaps
\* left it, not as it was when prev was assigned
str_prev(copied, align) == align

\* line 774 without the overlap with the previous alignment
grow_aligned_length_whole(cur, len2, distance_on_contig) == cur + len2

\* line 774: cur_aligned_length += prev.len2 - (-distance_on_contig if distance_on_contig < 0 else 0)
grow_aligned_length(cur, len2, distance_on_contig) ==
    cur + len2 - (IF distance_on_contig < 0 THEN -distance_on_contig ELSE 0)

(***************************************************************************)
(* plantakolya, lines 903-985: the top hit and the ambiguous contigs, or   *)
(* the start of the best-set search.                                       *)
(***************************************************************************)
AmbiguousAlignLine(a) == [line |-> "alignment", align |-> a, ambiguity |-> TRUE]

Select ==
    /\ pc = "select"
    /\ UNCHANGED <<coverage_vars, do_vars>>
    /\ \E sa \in {sorted_by_quality(aligns)} :
         LET top_len == sa[1].len2
             top_id == sa[1].idy
             ctg_len == Len(contig_seq)
         IN  IF top_hit_captures(top_len, ctg_len)
             THEN \E n \in {1 + grab_top_aligns(Tail(sa), top_len, top_id)} :
                  \E h \in {IF n = 1
                            THEN [kept |-> <<sa[1]>>, ambiguous |-> FALSE,
                                  lengths |-> <<sa[1].len2>>, extra_bases |-> 0]
                            ELSE ambiguous_contig(SubSeq(sa, 1, n), cfg.ambiguity_usage)} :
                    /\ sorted_aligns' = <<>>
                    /\ icarus_out' = icarus_out \o
                           [k \in 1..Len(h.kept) |->
                               IF h.ambiguous THEN AmbiguousAlignLine(h.kept[k])
                               ELSE AlignLine(h.kept[k])]
                    /\ ref_aligns' = append_ref_aligns(ref_aligns, h.kept)
                    /\ coords_filtered' = coords_filtered \o
                           [k \in 1..Len(h.kept) |->
                               [align |-> h.kept[k], ambiguous |-> h.ambiguous]]
                    /\ aligned_lengths' = aligned_lengths \o h.lengths
                    /\ ambiguous_contigs' = ambiguous_contigs + (IF n = 1 THEN 0 ELSE 1)
                    /\ ambiguous_contigs_extra_bases' =
                           ambiguous_contigs_extra_bases + h.extra_bases
                    /\ pc' = "done"
                    /\ UNCHANGED search_vars
             ELSE /\ sorted_aligns' = sorted_by_end(sa)
                  /\ all_scored_sets' = <<ScoredAlignSet(0, <<>>, ctg_len)>>
                  /\ max_score' = 0
                  /\ best_set' = <<>>
                  /\ idx' = 0
                  /\ pc' = "best"
                  /\ UNCHANGED <<icarus_out, ref_aligns, coords_filtered, aligned_lengths,
                                 ambiguous_vars>>
    /\ UNCHANGED <<cfg, contig_seq, aligns, walk_vars, region_misassemblies,
                   misassembled_contigs, aligned_bases_in_contig, unaligned_vars, report>>

(***************************************************************************)
(* One iteration of "for idx, align in enumerate(sorted_aligns)" of the    *)
(* best-set search (lines 1122-1142).                                      *)
(***************************************************************************)
BestSetStep ==
    /\ pc = "best"
    /\ UNCHANGED <<coverage_vars, do_vars>>
    /\ idx < Len(sorted_aligns)
    /\ \E st \in {scan_scored_sets(all_scored_sets, 1, idx + 1, sorted_aligns, cfg,
                                   contig_seq, max_score,
                                   [cur_max_score |-> 0, new_scored_set |-> <<>>,
                                    sets_to_remove |-> {}])} :
         /\ all_scored_sets' =
                Pick(all_scored_sets, (1..Len(all_scored_sets)) \ st.sets_to_remove)
                \o st.new_scored_set
         /\ max_score' = IF st.new_scored_set # <<>> /\ st.cur_max_score > max_score
                         THEN st.cur_max_score ELSE max_score
         /\ best_set' = IF st.new_scored_set # <<>> /\ st.cur_max_score > max_score
                        THEN st.new_scored_set[1].indexes ELSE best_set
    /\ idx' = idx + 1
    /\ UNCHANGED <<cfg, contig_seq, aligns, sorted_aligns, pc, walk_vars, aligned_lengths,
                   region_misassemblies, misassembled_contigs, ref_aligns,
                   coords_filtered, icarus_out, aligned_bases_in_contig, ambiguous_vars,
                   unaligned_vars, report>>

(***************************************************************************)
(* plantakolya, lines 1145-1259: the chosen alignments; one alignment, a   *)
(* contig more unaligned than misassembled, or the entry of                *)
(* process_misassembled_contig (lines 635-642).                            *)
(***************************************************************************)
\* "if len(real_aligns) == 1"
OneRealAlign(the_only_align) ==
    LET ctg_len == Len(contig_seq)
        begin == start(the_only_align)
        end_ == end(the_only_align)
        unaligned_bases == (begin - 1) + (ctg_len - end_)
        partial == begin - 1 # 0 \/ ctg_len - end_ # 0
        significant == /\ partial
                       /\ unaligned_bases >= significant_part_size
                       /\ ctg_len - unaligned_bases >= significant_part_size
    IN  /\ coords_filtered' = Append(coords_filtered,
                                     [align |-> the_only_align, ambiguous |-> FALSE])
        /\ aligned_lengths' = Append(aligned_lengths, the_only_align.len2)
        /\ partially_unaligned' = partially_unaligned + (IF partial THEN 1 ELSE 0)
        /\ partially_unaligned_bases' =
               partially_unaligned_bases + (IF partial THEN unaligned_bases ELSE 0)
        /\ icarus_out' = IF partial THEN Append(icarus_out, AlignLine(the_only_align))
                         ELSE icarus_out
        /\ partially_unaligned_with_significant_parts' =
               partially_unaligned_with_significant_parts + (IF significant THEN 1 ELSE 0)
        /\ region_misassemblies' = region_misassemblies \o
               (IF significant /\ meta_with_labels(cfg)
                THEN check_for_potential_translocation(contig_seq, ctg_len,
                                                       <<the_only_align>>)
                ELSE <<>>)
        /\ ref_aligns' = append_ref_aligns(ref_aligns, <<the_only_align>>)
        /\ pc' = "done"
        /\ UNCHANGED <<sorted_aligns, walk_vars, aligned_bases_in_contig,
                       partially_unaligned_with_misassembly>>

\* "if aligned_bases_in_contig < umt * ctg_len"
MoreUnalignedThanMisassembled(sorted, aligned_bases) ==
    LET ctg_len == Len(contig_seq)
        significant == /\ aligned_bases >= significant_part_size
                       /\ ctg_len - aligned_bases >= significant_part_size
    IN  /\ sorted_aligns' = sorted
        /\ aligned_bases_in_contig' = aligned_bases
        /\ partially_unaligned_with_misassembly' = partially_unaligned_with_misassembly + 1
        /\ icarus_out' = icarus_out \o [k \in 1..Len(sorted) |-> AlignLine(sorted[k])]
        /\ coords_filtered' = coords_filtered \o
               [k \in 1..Len(sorted) |-> [align |-> sorted[k], ambiguous |-> FALSE]]
        /\ aligned_lengths' = aligned_lengths \o [k \in 1..Len(sorted) |-> sorted[k].len2]
        /\ ref_aligns' = append_ref_aligns(ref_aligns, sorted)
        /\ partially_unaligned' = partially_unaligned + 1
        /\ partially_unaligned_bases' = partially_unaligned_bases + (ctg_len - aligned_bases)
        /\ partially_unaligned_with_significant_parts' =
               partially_unaligned_with_significant_parts + (IF significant THEN 1 ELSE 0)
        /\ region_misassemblies' = region_misassemblies \o
               (IF significant /\ meta_with_labels(cfg)
                THEN check_for_potential_translocation(contig_seq, ctg_len, sorted)
                ELSE <<>>)
        /\ pc' = "done"
        /\ UNCHANGED walk_vars

\* the call of process_misassembled_contig, up to its loop
EnterWalk(sorted, aligned_bases) ==
    /\ sorted_aligns' = sorted
    /\ aligned_bases_in_contig' = aligned_bases
    /\ misassembly_internal_overlap' = misassembly_internal_overlap
    /\ cur_aligned_length' = sorted[1].len2
    /\ is_misassembled' = FALSE
    /\ indels_info' = indels_info
    /\ contig_aligned_length' = 0
    /\ next_align' = sorted[1]
    /\ i' = 0
    /\ pc' = "walk"
    /\ UNCHANGED <<last, misassemblies_matched_sv, references_misassemblies, ref_features,
                   aligned_lengths, region_misassemblies, ref_aligns, coords_filtered,
                   icarus_out, unaligned_vars>>

ChooseRealAligns ==
    /\ pc = "best"
    /\ UNCHANGED <<coverage_vars, do_vars>>
    /\ idx = Len(sorted_aligns)
    /\ \E real_aligns \in {[k \in 1..Len(best_set) |-> sorted_aligns[best_set[k]]]} :
         IF Len(real_aligns) = 1
         THEN OneRealAlign(real_aligns[1])
         ELSE \E by_position \in {sorted_by_position(real_aligns)} :
              \E sorted \in {IF Len(by_position) >= 3
                             THEN Pick(by_position,
                                       (1..Len(by_position)) \
                                       extra_skipping(by_position, 2, end(by_position[1]), {}))
                             ELSE by_position} :
              \E aligned_bases \in {count_all_aligned_bases(sorted, 1, <<0, 0>>)[1]} :
                IF 100 * aligned_bases < umt * Len(contig_seq)
                THEN MoreUnalignedThanMisassembled(sorted, aligned_bases)
                ELSE EnterWalk(sorted, aligned_bases)
    /\ UNCHANGED <<cfg, contig_seq, aligns, search_vars, misassembled_contigs,
                   ambiguous_vars, report>>

(***************************************************************************)
(* One iteration of the loop of process_misassembled_contig (lines         *)
(* 644-774) on sorted_aligns[i] and sorted_aligns[i+1].                    *)
(***************************************************************************)
WalkPair ==
    /\ pc = "walk"
    /\ UNCHANGED <<coverage_vars, do_vars>>
    /\ i + 2 <= Len(sorted_aligns)
    \* each value is computed once and bound
    /\ \E a1 \in {sorted_aligns[i + 1]} :
       \E a2 \in {sorted_aligns[i + 2]} :
       \E r \in {is_misassembly(a1, a2, cfg, cfg.cyclic, contig_seq)} :
       \E excluding \in {a1.ref = a2.ref \/ (a1.ref # a2.ref /\ r.aux.is_translocation)} :
       \E ex \in {IF excluding
                  THEN exclude_internal_overlaps(a1, a2, cfg.ambiguity_usage)
                  ELSE <<a1, a2, 0>>} :
       \E ev \in {pair_event(ex[1], ex[2], r.is_ext, r.aux, cfg, contig_seq)} :
       LET aux == r.aux
           n1 == ex[1]
           n2 == ex[2]
           cur1 == cur_aligned_length - ex[3]
           cur2 == IF ev.brk THEN 0 ELSE cur1
           ref1 == ref_labels_by_chromosomes[n1.ref]
           ref2 == ref_labels_by_chromosomes[n2.ref]
       IN  /\ last' = [align1 |-> a1, align2 |-> a2, is_ext |-> r.is_ext, aux |-> aux,
                       excluding |-> excluding, labels |-> ev.labels]
           /\ misassembly_internal_overlap' =
                  misassembly_internal_overlap + aux.misassembly_internal_overlap
           /\ icarus_out' = icarus_out \o <<AlignLine(next_align)>>
                                       \o [k \in 1..Len(ev.labels) |-> LabelLine(ev.labels[k])]
           /\ next_align' = a2
           /\ sorted_aligns' = [sorted_aligns EXCEPT ![i + 1] = n1, ![i + 2] = n2]
           /\ ref_aligns' = append_ref_aligns(ref_aligns, <<n1>>)
           /\ coords_filtered' = Append(coords_filtered,
                                        [align |-> str_prev(a1, n1), ambiguous |-> FALSE])
           /\ misassemblies_matched_sv' = misassemblies_matched_sv + ev.sv
           /\ region_misassemblies' = region_misassemblies \o ev.mis
           /\ is_misassembled' = (is_misassembled \/ ev.ext)
           /\ aligned_lengths' = IF ev.brk THEN Append(aligned_lengths, cur1)
                                 ELSE aligned_lengths
           /\ contig_aligned_length' = IF ev.brk THEN contig_aligned_length + cur1
                                       ELSE contig_aligned_length
           /\ references_misassemblies' = IF ev.inter
                  THEN add_interspecies(references_misassemblies, ref1, ref2)
                  ELSE references_misassemblies
           /\ ref_features' = IF ev.ext
                              THEN ref_features \cup {<<n1.ref, n1.e1>>, <<n2.ref, n2.e1>>}
                              ELSE ref_features
           /\ indels_info' = [mismatches |-> indels_info.mismatches + ev.mismatches,
                              insertions |-> indels_info.insertions + ev.insertions,
                              deletions |-> indels_info.deletions + ev.deletions,
                              indels_list |-> indels_info.indels_list \o ev.indels]
           /\ cur_aligned_length' = grow_aligned_length(cur2, n2.len2, aux.distance_on_contig)
           /\ i' = i + 1
    /\ UNCHANGED <<cfg, contig_seq, aligns, pc, search_vars, misassembled_contigs,
                   aligned_bases_in_contig, ambiguous_vars, unaligned_vars, report>>

\* "Record the very last alignment" (lines 776-783) and the assertion
RecordLast ==
    /\ pc = "walk"
    /\ UNCHANGED <<coverage_vars, do_vars>>
    /\ i + 1 = Len(sorted_aligns)
    /\ pc' = IF contig_aligned_length + cur_aligned_length <= Len(contig_seq)
             THEN "last" ELSE "AssertionError"
    /\ icarus_out' = Append(icarus_out, AlignLine(next_align))
    /\ ref_aligns' = append_ref_aligns(ref_aligns, <<sorted_aligns[i + 1]>>)
    /\ coords_filtered' = Append(coords_filtered,
                                 [align |-> sorted_aligns[i + 1], ambiguous |-> FALSE])
    /\ aligned_lengths' = Append(aligned_lengths, cur_aligned_length)
    /\ contig_aligned_length' = contig_aligned_length + cur_aligned_length
    /\ UNCHANGED <<cfg, contig_seq, aligns, sorted_aligns, search_vars, i, last,
                   cur_aligned_length, region_misassemblies, misassemblies_matched_sv,
                   references_misassemblies, is_misassembled, misassembled_contigs,
                   misassembly_internal_overlap, indels_info, ref_features, next_align,
                   aligned_bases_in_contig, ambiguous_vars, unaligned_vars, report>>

\* plantakolya after the call (lines 1264-1273)
AfterWalk ==
    /\ pc = "last"
    /\ UNCHANGED <<coverage_vars, do_vars>>
    /\ misassembled_contigs' =
           IF is_misassembled
           THEN {p \in misassembled_contigs : p[1] # sorted_aligns[1].contig}
                \cup {<<sorted_aligns[1].contig, Len(contig_seq)>>}
           ELSE misassembled_contigs
    /\ region_misassemblies' = region_misassemblies \o
           (IF /\ aligned_bases_in_contig >= significant_part_size
               /\ Len(contig_seq) - aligned_bases_in_contig >= significant_part_size
               /\ meta_with_labels(cfg)
            THEN check_for_potential_translocation(contig_seq, Len(contig_seq), sorted_aligns)
            ELSE <<>>)
    /\ pc' = "done"
    /\ UNCHANGED <<cfg, contig_seq, aligns, sorted_aligns, search_vars, walk_vars,
                   aligned_lengths, ref_aligns, coords_filtered, icarus_out,
                   aligned_bases_in_contig, ambiguous_vars, unaligned_vars, report>>

(***************************************************************************)
(* save_result: the fields of the report that come from the analysis of    *)
(* the contigs.  A field that is added under a condition is a sequence of  *)
(* at most one value.                                                      *)
(***************************************************************************)
\* "len(region_misassemblies) - count(LOCAL) - count(SCAFFOLD_GAP) - count(FRAGMENTED)"
count_misassemblies(region_misassemblies_) ==
    Len(region_misassemblies_) - Count(region_misassemblies_, LOCAL_MIS)
    - Count(region_misassemblies_, SCAFFOLD_GAP) - Count(region_misassemblies_, FRAGMENTED)

\* the number of the misassembled contigs, whatever their lengths
misassembled_contigs_counted(d) == Cardinality(d)

\* misassembled_bases = sum(misassembled_contigs.itervalues()) (line 1638)
RECURSIVE sum_itervalues(_)
sum_itervalues(d) ==
    IF d = {} THEN 0
    ELSE LET p == CHOOSE q \in d : TRUE
         IN  p[2] + sum_itervalues(d \ {p})

misassembled_bases(d) == sum_itervalues(d)

\* the extra bases printed as they are
reported_extra_bases_kept(extra_bases, ambiguity_usage) == extra_bases

\* the summary of plantakolya (lines 1648-1657): under the policy "one" the
\* variable is set to 0 before the result is built
reported_extra_bases(extra_bases, ambiguity_usage) ==
    IF ambiguity_usage = "one" THEN 0 ELSE extra_bases

SaveResult ==
    /\ pc = "done"
    /\ UNCHANGED <<coverage_vars, do_vars>>
    /\ ambiguous_contigs_extra_bases' =
           reported_extra_bases(ambiguous_contigs_extra_bases, cfg.ambiguity_usage)
    /\ report' =
        [written |-> TRUE,
         MISLOCAL |-> Count(region_misassemblies, LOCAL_MIS),
         MISASSEMBL |-> count_misassemblies(region_misassemblies),
         MISCONTIGS |-> Cardinality(misassembled_contigs),
         MISCONTIGSBASES |-> misassembled_bases(misassembled_contigs),
         MISINTERNALOVERLAP |-> misassembly_internal_overlap,
         STRUCT_VARIATIONS |-> IF cfg.svs_on THEN <<misassemblies_matched_sv>> ELSE <<>>,
         UNALIGNED_PART |-> partially_unaligned,
         UNALIGNEDBASES_PART |-> partially_unaligned_bases,
         AMBIGUOUS |-> ambiguous_contigs,
         AMBIGUOUSEXTRABASES |-> ambiguous_contigs_extra_bases',
         MIS_ALL_EXTENSIVE |-> count_misassemblies(region_misassemblies),
         MIS_RELOCATION |-> Count(region_misassemblies, RELOCATION),
         MIS_TRANSLOCATION |-> Count(region_misassemblies, TRANSLOCATION),
         MIS_INVERTION |-> Count(region_misassemblies, INVERSION),
         MIS_EXTENSIVE_CONTIGS |-> Cardinality(misassembled_contigs),
         MIS_EXTENSIVE_BASES |-> misassembled_bases(misassembled_contigs),
         MIS_LOCAL |-> Count(region_misassemblies, LOCAL_MIS),
         MIS_ISTRANSLOCATIONS |->
             IF cfg.is_combined_ref
             THEN <<Count(region_misassemblies, INTERSPECTRANSLOCATION)>> ELSE <<>>,
         POTENTIALLY_MIS_CONTIGS |->
             IF cfg.meta THEN <<Count(region_misassemblies, POTENTIALLY_MIS_CONTIGS)>>
             ELSE <<>>,
         POTENTIALLY_MISASSEMBLIES |->
             IF cfg.meta THEN <<Count(region_misassemblies, POTENTIALLY_MISASSEMBLIES)>>
             ELSE <<>>,
         MIS_SCAFFOLDS_GAP |->
             IF cfg.scaffolds THEN <<Count(region_misassemblies, SCAFFOLD_GAP)>> ELSE <<>>,
         MIS_FRAGMENTED |->
             IF cfg.check_for_fragmented_ref
             THEN <<Count(region_misassemblies, FRAGMENTED)>> ELSE <<>>,
         UNALIGNED_PART_CNTGS |-> partially_unaligned,
         UNALIGNED_PART_WITH_MISASSEMBLY |-> partially_unaligned_with_misassembly,
         UNALIGNED_PART_SIGNIFICANT_PARTS |-> partially_unaligned_with_significant_parts,
         UNALIGNED_PART_LENGTH |-> partially_unaligned_bases]
    /\ pc' = "reported"
    /\ UNCHANGED <<cfg, contig_seq, aligns, sorted_aligns, search_vars, walk_vars,
                   aligned_lengths, region_misassemblies, misassembled_contigs, ref_aligns,
                   coords_filtered, icarus_out, aligned_bases_in_contig, ambiguous_contigs,
                   unaligned_vars>>

(***************************************************************************)
(* Inputs.                                                                 *)
(***************************************************************************)
\* an alignment of len bases without indels and of identity 100 %, on the
\* given strand
Aln(ref, s1, cstart, len, fwd) ==
    Mapping(s1, s1 + len - 1,
            IF fwd THEN cstart ELSE cstart + len - 1,
            IF fwd THEN cstart + len - 1 ELSE cstart,
            len, len, 1000, ref, "c")

\* a contig of n bases whose bases lo..hi are N
ContigWithNs(n, lo, hi) == [k \in 1..n |-> IF lo <= k /\ k <= hi THEN "N" ELSE "A"]

Bp(ref, s1, e1) == [ref |-> ref, s1 |-> s1, e1 |-> e1]
NoSVs == [inversions |-> <<>>, relocations |-> <<>>, translocations |-> <<>>]
\* BED files: one inversion on A and one translocation between A and C; one deletion on A
SVTables == {[NoSVs EXCEPT !.inversions = <<<<Bp("A", 2, 2), Bp("A", 4, 4)>>>>,
                           !.translocations = <<<<Bp("A", 2, 2), Bp("C", 3, 3)>>>>],
             [NoSVs EXCEPT !.relocations = <<<<Bp("A", 2, 2), Bp("A", 4, 4)>>>>]}

Config(sc, comb, frag, cyc, amb, strict, meta, svs_on, svs) ==
    [scaffolds |-> sc, is_combined_ref |-> comb, check_for_fragmented_ref |-> frag,
     cyclic |-> cyc, ambiguity_usage |-> amb, strict_NA |-> strict, meta |-> meta,
     svs_on |-> svs_on, svs |-> svs]

\* a local variable that is not assigned yet
None == "None"

\* plantakolya at the start of the loop over the contigs (lines 853-882)
Loaded(c, sq, al) ==
    /\ cfg = c
    /\ contig_seq = sq
    /\ aligns = al
    /\ aligned_lengths = <<>>
    /\ region_misassemblies = <<>>
    /\ misassemblies_matched_sv = 0
    /\ references_misassemblies = [g \in Groups |-> [h \in Groups |-> 0]]
    /\ misassembled_contigs = {}
    /\ misassembly_internal_overlap = 0
    /\ indels_info = IndelsInfo
    /\ ref_aligns = [r \in RefNames |-> <<>>]
    /\ ref_features = {}
    /\ coords_filtered = <<>>
    /\ icarus_out = <<>>
    /\ ambiguous_contigs = 0
    /\ ambiguous_contigs_extra_bases = 0
    /\ partially_unaligned = 0
    /\ partially_unaligned_bases = 0
    /\ partially_unaligned_with_misassembly = 0
    /\ partially_unaligned_with_significant_parts = 0
    /\ report = [written |-> FALSE]

\* no run of do(): one contig of one assembly is looked at
NoDo ==
    /\ env = <<>>
    /\ files = <<>>
    /\ pool = <<>>
    /\ do_out = <<>>

\* the coverage walk not started (lines 1294-1305), no SNPs loaded
NoCoverage ==
    /\ snps = <<>>
    /\ region_covered = 0
    /\ current = None
    /\ negative = FALSE
    /\ end_flag = FALSE
    /\ counter = 0
    /\ used_snps = <<>>

\* no best-set search yet
NoSearch ==
    /\ idx = 0
    /\ all_scored_sets = <<>>
    /\ max_score = 0
    /\ best_set = <<>>

\* process_misassembled_contig not entered yet
NoWalk ==
    /\ i = 0
    /\ last = [labels |-> <<>>]
    /\ cur_aligned_length = 0
    /\ contig_aligned_length = 0
    /\ is_misassembled = FALSE
    /\ next_align = None
    /\ aligned_bases_in_contig = 0

(***************************************************************************)
(* Spec: the classification of one adjacent pair, under every combination  *)
(* of the flags scaffolds, is_combined_ref, check_for_fragmented_ref,      *)
(* cyclic and with or without an SV table.  It starts at the entry of      *)
(* process_misassembled_contig with two alignments: the first lies at the  *)
(* contig's start on reference A, the second anywhere on A, B or C.        *)
(***************************************************************************)
ClassifyConfigs ==
    {Config(sc, comb, frag, cyc, "one", FALSE, FALSE, FALSE, NoSVs) :
        sc \in BOOLEAN, comb \in BOOLEAN, frag \in BOOLEAN, cyc \in BOOLEAN}
    \cup
    {Config(sc, comb, frag, cyc, "one", FALSE, FALSE, TRUE, t) :
        sc \in BOOLEAN, comb \in BOOLEAN, frag \in BOOLEAN, cyc \in BOOLEAN, t \in SVTables}

ClassifySeqs == {ContigWithNs(CtgLen, 1, 0), ContigWithNs(CtgLen, 3, 4)}

FirstAligns == {Aln("A", s1, 1, AlnLen, fwd) :
                    s1 \in 1..(RefLen - AlnLen + 1), fwd \in BOOLEAN}

NextAligns == {Aln(ref, s1, cs, AlnLen, fwd) :
                   ref \in RefNames, s1 \in 1..(RefLen - AlnLen + 1),
                   cs \in 1..(CtgLen - AlnLen + 1), fwd \in BOOLEAN}

\* the lists that reach process_misassembled_contig are sorted by position and
\* cover at least umt of the contig
Walkable(sq, sorted) ==
    /\ \A k \in 1..(Len(sorted) - 1) : position_le(sorted[k], sorted[k + 1])
    /\ 100 * count_all_aligned_bases(sorted, 1, <<0, 0>>)[1] >= umt * Len(sq)

Init ==
    \E c \in ClassifyConfigs, sq \in ClassifySeqs, first \in FirstAligns,
       next \in NextAligns :
        /\ Walkable(sq, <<first, next>>)
        /\ Loaded(c, sq, <<first, next>>)
        /\ NoCoverage
        /\ NoDo
        /\ NoSearch
        /\ sorted_aligns = <<first, next>>
        /\ aligned_bases_in_contig = count_all_aligned_bases(sorted_aligns, 1, <<0, 0>>)[1]
        /\ pc = "walk"
        /\ i = 0
        /\ last = [labels |-> <<>>]
        /\ cur_aligned_length = first.len2
        /\ contig_aligned_length = 0
        /\ is_misassembled = FALSE
        /\ next_align = first

Next == WalkPair \/ RecordLast

Spec == Init /\ [][Next]_vars

(***************************************************************************)
(* SpecContig: one contig that no alignment captures, from the start of    *)
(* the best-set search to the report.  The candidates are alignments of    *)
(* MinAlnLen..MaxAlnLen bases anywhere on the contig: collinear on A,      *)
(* shifted by ShiftOnRef on A, reversed on A, or on C.                     *)
(***************************************************************************)
ContigConfigs ==
    {Config(FALSE, FALSE, FALSE, FALSE, amb, strict, FALSE, FALSE, NoSVs) :
        amb \in {"none", "one", "all"}, strict \in BOOLEAN}
    \cup
    {Config(FALSE, TRUE, FALSE, FALSE, "one", FALSE, TRUE, FALSE, NoSVs)}

Candidates ==
    {a \in {Aln(v[1], cs + v[3], cs, len, v[2]) :
               v \in {<<"A", TRUE, 0>>, <<"A", TRUE, ShiftOnRef>>, <<"A", FALSE, 0>>,
                      <<"C", TRUE, 0>>},
               len \in MinAlnLen..MaxAlnLen, cs \in 1..CtgLen} :
        end(a) <= CtgLen /\ a.e1 <= RefLen}

\* sorted(sorted_aligns, key=end) of a list sorted by quality: sorted by end,
\* and by quality among equal ends
SortedCandidates(s) ==
    /\ \A j \in 1..(Len(s) - 1) :
           \/ end(s[j]) < end(s[j + 1])
           \/ end(s[j]) = end(s[j + 1]) /\ quality_ge(s[j], s[j + 1])
    /\ \A j \in 1..Len(s), k \in 1..Len(s) : j < k => s[j] # s[k]

CandidateLists ==
    UNION {{s \in [1..n -> Candidates] :
               /\ SortedCandidates(s)
               /\ ~top_hit_captures(sorted_by_quality(s)[1].len2, CtgLen)} :
           n \in 1..MaxAligns}

InitContig ==
    \E c \in ContigConfigs, al \in CandidateLists :
        /\ Loaded(c, ContigWithNs(CtgLen, 1, 0), al)
        /\ NoCoverage
        /\ NoDo
        /\ NoWalk
        /\ sorted_aligns = al
        /\ pc = "best"
        /\ idx = 0
        /\ all_scored_sets = <<ScoredAlignSet(0, <<>>, CtgLen)>>
        /\ max_score = 0
        /\ best_set = <<>>

NextContig ==
    \/ BestSetStep
    \/ ChooseRealAligns
    \/ WalkPair
    \/ RecordLast
    \/ AfterWalk
    \/ SaveResult

SpecContig == InitContig /\ [][NextContig]_vars

(***************************************************************************)
(* SpecSelect: one contig from the sort of its alignments on.  The         *)
(* alignments cover the whole contig or all but its last base, with an     *)
(* identity of 100, 99.5 or 90 %, or they are halves of the contig.        *)
(***************************************************************************)
SelectConfigs ==
    {Config(FALSE, FALSE, FALSE, FALSE, amb, FALSE, FALSE, FALSE, NoSVs) :
        amb \in {"none", "one", "all"}}

SelectAligns ==
    {[Aln(ref, 1, 1, len, TRUE) EXCEPT !.idy = idy] :
        ref \in {"A", "B"}, len \in {CtgLen - 1, CtgLen}, idy \in {1000, 995, 900}}
    \cup {Aln("A", 1, 1, CtgLen \div 2, TRUE),
          Aln("B", 1, CtgLen \div 2 + 1, CtgLen - CtgLen \div 2, TRUE)}

SelectLists ==
    UNION {{s \in [1..n -> SelectAligns] :
               \A j \in 1..Len(s), k \in 1..Len(s) : j < k => s[j] # s[k]} :
           n \in 1..MaxAligns}

InitSelect ==
    \E c \in SelectConfigs, al \in SelectLists :
        /\ Loaded(c, ContigWithNs(CtgLen, 1, 0), al)
        /\ NoCoverage
        /\ NoDo
        /\ NoSearch
        /\ NoWalk
        /\ sorted_aligns = al
        /\ pc = "select"

NextSelect == Select \/ NextContig

SpecSelect == InitSelect /\ [][NextSelect]_vars

(***************************************************************************)
(* SpecUnaligned: as SpecContig, on a contig that is Unaligned bases       *)
(* longer than the part of it the candidates lie on, so that the chosen    *)
(* alignments can cover less than umt of it.  The candidates have          *)
(* MinAlnLen or MinAlnLen + 1 bases.                                       *)
(***************************************************************************)
UnalignedLists ==
    UNION {{s \in [1..n -> {a \in Candidates : a.len2 <= MinAlnLen + 1}] :
               /\ SortedCandidates(s)
               /\ ~top_hit_captures(sorted_by_quality(s)[1].len2, CtgLen + Unaligned)} :
           n \in 2..MaxAligns}

InitUnaligned ==
    \E c \in ContigConfigs, al \in UnalignedLists :
        /\ Loaded(c, ContigWithNs(CtgLen + Unaligned, 1, 0), al)
        /\ NoCoverage
        /\ NoDo
        /\ NoWalk
        /\ sorted_aligns = al
        /\ pc = "best"
        /\ idx = 0
        /\ all_scored_sets = <<ScoredAlignSet(0, <<>>, CtgLen + Unaligned)>>
        /\ max_score = 0
        /\ best_set = <<>>

SpecUnaligned == InitUnaligned /\ [][NextContig]_vars

(***************************************************************************)
(* The coverage walk of plantakolya (lines 1294-1606) over the alignments  *)
(* kept on one reference, in SNP mode, with the one region                 *)
(* [1, reg_lens[ref]] of the reference (lines 845-847).                    *)
(***************************************************************************)
\* class SNP (lines 806-812)
SNP(ref_pos, ctg_pos, ref_nucl, ctg_nucl) ==
    [ref_pos |-> ref_pos, ctg_pos |-> ctg_pos, ref_nucl |-> ref_nucl, ctg_nucl |-> ctg_nucl,
     type |-> IF ref_nucl = "." THEN "I" ELSE IF ctg_nucl = "." THEN "D" ELSE "S"]

\* regions[ref]: [1, len(seq)]
region(ref) == <<1, reg_lens[ref]>>

\* snps[ref][contig][z], empty where z is not a key
snps_at(z) == IF z \in DOMAIN snps THEN snps[z] ELSE <<>>

\* "Account for any indels that may be present": +1 for every insertion and
\* -1 for every deletion at the positions lo..hi
snip_indels(lo, hi) ==
    SeqSum([k \in 1..(hi - lo + 1) |->
               SeqSum([j \in 1..Len(snps_at(lo + k - 1)) |->
                          IF snps_at(lo + k - 1)[j].type = "I" THEN 1
                          ELSE IF snps_at(lo + k - 1)[j].type = "D" THEN -1 ELSE 0])])

\* "Previous gap was negative, modifying coordinates to ignore overlap"
\* (lines 1399-1420): the next alignment starts after the current one
ignore_overlap(align, cur) ==
    LET snip_left == cur.e1 + 1 - align.s1 + snip_indels(align.s1, cur.e1 + 1)
    IN  [align EXCEPT !.s1 = cur.e1 + 1,
                      !.s2 = IF align.s2 < align.e2 THEN align.s2 + snip_left
                             ELSE align.s2 - snip_left]

\* "The next alignment is redundant to the current alignment" (lines
\* 1464-1479): the alignments left after the while loop
RECURSIVE skip_redundant(_, _)
skip_redundant(sorted_aligns_, cur) ==
    IF sorted_aligns_ # <<>> /\ sorted_aligns_[1].e1 <= cur.e1
    THEN skip_redundant(Tail(sorted_aligns_), cur)
    ELSE sorted_aligns_

\* sorted(cur_snps, key=ctg_pos), reversed for the reverse strand
RECURSIVE sorted_by_ctg_pos(_, _)
sorted_by_ctg_pos(cur_snps, pos_strand_) ==
    IF cur_snps = <<>> THEN <<>>
    ELSE LET rest == sorted_by_ctg_pos(SubSeq(cur_snps, 1, Len(cur_snps) - 1), pos_strand_)
             x == cur_snps[Len(cur_snps)]
             before == {k \in 1..Len(rest) :
                           IF pos_strand_ THEN rest[k].ctg_pos <= x.ctg_pos
                           ELSE rest[k].ctg_pos >= x.ctg_pos}
             n == IF before = {} THEN 0
                  ELSE CHOOSE k \in before : \A j \in before : j <= k
         IN  SubSeq(rest, 1, n) \o <<x>> \o SubSeq(rest, n + 1, Len(rest))

\* the indel goes on whatever the contig positions of the deletions
indel_goes_on_any_ctg_pos(prev_snp, cur_snp, pos_strand_) ==
    /\ prev_snp # <<>>
    /\ \/ cur_snp.type = "D" /\ prev_snp[1].ref_pos = cur_snp.ref_pos - 1
       \/ /\ cur_snp.type = "I"
          /\ \/ pos_strand_ /\ prev_snp[1].ctg_pos = cur_snp.ctg_pos - 1
             \/ ~pos_strand_ /\ prev_snp[1].ctg_pos = cur_snp.ctg_pos + 1
          /\ prev_snp[1].ref_pos = cur_snp.ref_pos

\* the condition of lines 1576-1578: cur_snp goes on the indel of prev_snp;
\* prev_snp is <<>> for None
indel_goes_on(prev_snp, cur_snp, pos_strand_) ==
    /\ prev_snp # <<>>
    /\ \/ /\ cur_snp.type = "D"
          /\ prev_snp[1].ref_pos = cur_snp.ref_pos - 1
          /\ prev_snp[1].ctg_pos = cur_snp.ctg_pos
       \/ /\ cur_snp.type = "I"
          /\ \/ pos_strand_ /\ prev_snp[1].ctg_pos = cur_snp.ctg_pos - 1
             \/ ~pos_strand_ /\ prev_snp[1].ctg_pos = cur_snp.ctg_pos + 1
          /\ prev_snp[1].ref_pos = cur_snp.ref_pos

\* one SNP of the for loop over cur_snps (lines 1533-1584); st holds
\* contig_estimate, prev_snp, cur_indel, total_indels_info and the lines
\* written to used_snps_file
one_snp(cur_snp, pos_strand_, counter_, st) ==
    IF Abs(st.contig_estimate - cur_snp.ctg_pos) > 2 THEN st
    ELSE LET step == IF pos_strand_ THEN 1 ELSE -1
             indel == cur_snp.type \in {"D", "I"}
             goes_on == indel_goes_on(st.prev_snp, cur_snp, pos_strand_)
             info == st.info
         IN  [st EXCEPT
                 !.contig_estimate =
                     IF cur_snp.type = "I" THEN @ + step
                     ELSE IF cur_snp.type = "D" THEN @ - step ELSE @,
                 !.prev_snp = IF indel THEN <<cur_snp>> ELSE @,
                 !.cur_indel = IF ~indel THEN @ ELSE IF goes_on THEN @ + 1 ELSE 1,
                 !.info =
                     [mismatches |-> info.mismatches + (IF cur_snp.type = "S" THEN 1 ELSE 0),
                      insertions |-> info.insertions + (IF cur_snp.type = "I" THEN 1 ELSE 0),
                      deletions |-> info.deletions + (IF cur_snp.type = "D" THEN 1 ELSE 0),
                      indels_list |->
                          IF indel /\ ~goes_on /\ st.cur_indel # 0
                          THEN Append(info.indels_list, st.cur_indel)
                          ELSE info.indels_list],
                 !.used = Append(@, [snp |-> cur_snp, counter |-> counter_])]

RECURSIVE all_snps(_, _, _, _)
all_snps(cur_snps, pos_strand_, counter_, st) ==
    IF cur_snps = <<>> THEN st
    ELSE all_snps(Tail(cur_snps), pos_strand_, counter_,
                  one_snp(Head(cur_snps), pos_strand_, counter_, st))

\* "Assess each reference base of the current alignment": the for loop over
\* i = current.s1 .. current.e1 (lines 1511-1586), from the base i_ on
RECURSIVE assess_bases(_, _, _, _)
assess_bases(cur, i_, counter_, st) ==
    IF i_ > cur.e1 THEN st
    ELSE LET pos_strand_ == cur.s2 < cur.e2
             st1 == all_snps(sorted_by_ctg_pos(snps_at(i_), pos_strand_), pos_strand_,
                             counter_, st)
         IN  assess_bases(cur, i_ + 1, counter_,
                          [st1 EXCEPT !.covered = @ + 1,
                                      !.contig_estimate = IF pos_strand_ THEN @ + 1 ELSE @ - 1])

\* the while loop goes on (line 1392)
more_aligns ==
    /\ sorted_aligns # <<>>
    /\ sorted_aligns[1].s1 < region(sorted_aligns[1].ref)[2]
    /\ ~end_flag

\* one iteration of the while loop over the alignments of the region (lines
\* 1392-1606)
CoverageStep ==
    /\ pc = "coverage"
    /\ more_aligns
    /\ \E head \in {IF negative THEN ignore_overlap(sorted_aligns[1], current)
                    ELSE sorted_aligns[1]} :
       \E reg \in {region(head.ref)} :
       \E rest \in {Tail(sorted_aligns)} :
       \E last_one \in {rest = <<>> \/ head.e1 >= reg[2] \/ rest[1].s1 > reg[2]} :
       \E left \in {IF last_one THEN rest ELSE skip_redundant(rest, head)} :
       \E cur \in {IF last_one /\ head.e1 >= reg[2] THEN [head EXCEPT !.e1 = reg[2]]
                   ELSE head} :
       \E st \in {assess_bases(cur, cur.s1, counter + 1,
                               [contig_estimate |-> cur.s2, prev_snp |-> <<>>,
                                cur_indel |-> 0, info |-> indels_info,
                                used |-> used_snps, covered |-> region_covered])} :
         /\ current' = cur
         /\ sorted_aligns' = IF last_one /\ head.e1 >= reg[2] THEN <<cur>> \o rest ELSE left
         /\ end_flag' = IF last_one THEN head.e1 >= reg[2] ELSE left = <<>>
         /\ negative' = (~last_one /\ left # <<>> /\ left[1].s1 <= head.e1)
         /\ counter' = counter + 1
                       + (IF last_one \/ left = rest THEN 0
                          ELSE Len(rest) - Len(left) - (IF left = <<>> THEN 1 ELSE 0))
         /\ region_covered' = st.covered
         /\ used_snps' = st.used
         /\ indels_info' =
                IF st.cur_indel # 0
                THEN [st.info EXCEPT !.indels_list = Append(@, st.cur_indel)]
                ELSE st.info
    /\ UNCHANGED <<cfg, contig_seq, aligns, pc, search_vars, i, last, cur_aligned_length,
                   contig_aligned_length, aligned_lengths, region_misassemblies,
                   misassemblies_matched_sv, references_misassemblies, is_misassembled,
                   misassembled_contigs, misassembly_internal_overlap, ref_aligns,
                   ref_features, coords_filtered, icarus_out, next_align,
                   aligned_bases_in_contig, ambiguous_vars, unaligned_vars, report, snps,
                   do_vars>>

\* the end of the while loop: total_aligned_bases = region_covered (line 1613)
CoverageEnd ==
    /\ pc = "coverage"
    /\ ~more_aligns
    /\ pc' = "covered"
    /\ UNCHANGED <<cfg, contig_seq, aligns, sorted_aligns, search_vars, walk_vars,
                   aligned_lengths, region_misassemblies, misassembled_contigs, ref_aligns,
                   coords_filtered, icarus_out, aligned_bases_in_contig, ambiguous_vars,
                   unaligned_vars, report, coverage_vars, do_vars>>

(***************************************************************************)
(* SpecCoverage: the coverage walk over up to MaxAligns alignments kept on *)
(* reference A, all of one strand: any intervals of the reference, nested, *)
(* overlapping or identical, of one base or more (exclude_internal_overlaps*)
(* can leave one base of an alignment).  With one or two alignments the    *)
(* SNP file holds deletions at the inner positions of the reference, or a  *)
(* mismatch and an insertion of two bases.                                 *)
(***************************************************************************)
KeptAligns(fwd) ==
    {m \in {Mapping(s1, e1, IF fwd THEN s1 ELSE RefLen + 1 - s1,
                    IF fwd THEN e1 ELSE RefLen + 1 - e1, e1 - s1 + 1, e1 - s1 + 1, 1000,
                    "A", "c") : s1 \in 1..RefLen, e1 \in 1..RefLen} : m.s1 <= m.e1}

\* sorted(ref_aligns[ref], key=s1) of up to n alignments (line 1318)
KeptLists(fwd, n) ==
    UNION {{s \in [1..m -> KeptAligns(fwd)] :
               \A j \in 1..(m - 1) : s[j].s1 <= s[j + 1].s1} : m \in 1..n}

NoSnps == [z \in 1..RefLen |-> <<>>]
\* a deletion of the reference base z, after the base ctg_pos of the contig
Deletion(z, ctg_pos) == SNP(z, ctg_pos, "A", ".")
\* deletions at any of the positions 2..RefLen-1, each with one of two contig
\* positions; or a mismatch and an insertion of two bases
SnpTables ==
    {[z \in 1..RefLen |-> IF z \in DOMAIN d /\ d[z] # 0 THEN <<Deletion(z, d[z])>> ELSE <<>>] :
        d \in [2..(RefLen - 1) -> {0, DelCtgPos, DelCtgPos + 1}]}
    \cup {[NoSnps EXCEPT ![2] = <<SNP(2, 2, "A", "C")>>,
                         ![3] = <<SNP(3, 4, ".", "A"), SNP(3, 3, ".", "A")>>]}

InitCoverage ==
    \E fwd \in BOOLEAN, n \in {2, MaxAligns} :
    \E kept \in KeptLists(fwd, n) :
    \E sn \in IF n = 2 THEN SnpTables ELSE {NoSnps} :
        /\ Loaded(Config(FALSE, FALSE, FALSE, FALSE, "one", FALSE, FALSE, FALSE, NoSVs),
                  ContigWithNs(CtgLen, 1, 0), kept)
        /\ NoSearch
        /\ NoWalk
        /\ sorted_aligns = kept
        /\ pc = "coverage"
        /\ NoDo
        /\ snps = sn
        /\ region_covered = 0
        /\ current = None
        /\ negative = FALSE
        /\ end_flag = FALSE
        /\ counter = 0
        /\ used_snps = <<>>

NextCoverage == CoverageStep \/ CoverageEnd

SpecCoverage == InitCoverage /\ [][NextCoverage]_vars

(***************************************************************************)
(* Properties of the classification of a pair (specification Spec).        *)
(***************************************************************************)
pos_strand(a) == a.s2 < a.e2
PairDone == i >= 1
VerdictLines == {k \in 1..Len(icarus_out) : icarus_out[k].line # "alignment"}

\* C1: every adjacent pair walked by process_misassembled_contig gets exactly
\* one verdict, one of the ten labels: the verdict lines written so far are
\* as many as the pairs walked, and the last pair wrote exactly one.
C1_Totality ==
    /\ Cardinality(VerdictLines) = i
    /\ \A k \in VerdictLines : icarus_out[k].line \in Labels
    /\ PairDone => Len(last.labels) = 1 /\ last.labels[1] \in Labels

\* a pair that is a fake misassembly of a circular genome has been walked
C1_Witness == PairDone /\ last.labels = <<FAKE_CYCLIC>>

LastSameRef == last.align1.ref = last.align2.ref
LastStrandsDiffer == pos_strand(last.align1) # pos_strand(last.align2)
\* the pair is neither a scaffold gap nor explained by a structural variation
LastPlain == ~last.aux.is_scaffold_gap /\ ~last.aux.is_sv
LastRule4 == /\ PairDone /\ LastSameRef /\ LastPlain
             /\ (Abs(last.aux.inconsistency) > smgap \/ LastStrandsDiffer)

LastGap == {k \in 1..Len(contig_seq) : end(last.align1) < k /\ k < start(last.align2)}
\* the last pair satisfies the scaffold-gap rule (its gap is made of Ns only)
LastScaffoldGapRule ==
    /\ LastSameRef /\ ~LastStrandsDiffer
    /\ Abs(last.aux.inconsistency) <= scaffolds_gap_threshold
    /\ Cardinality(LastGap) >= Ns_break_threshold
    /\ \A k \in LastGap : contig_seq[k] = "N"
LastMatchesSV ==
    cfg.svs_on /\ check_sv(last.align1, last.align2, last.aux.inconsistency, cfg.svs)

LastGroup1 == ref_labels_by_chromosomes[last.align1.ref]
LastGroup2 == ref_labels_by_chromosomes[last.align2.ref]

\* C8: in combined-reference mode a pair on references of different groups g1,
\* g2 that is neither a scaffold gap nor SV-explained is an INTERSPECIES
\* TRANSLOCATION and adds exactly 1 to the matrix entries (g1,g2) and (g2,g1);
\* the matrix is symmetric in every state.
C8_Interspecies ==
    /\ \A g \in Groups, h \in Groups :
           references_misassemblies[g][h] = references_misassemblies[h][g]
    /\ (PairDone /\ cfg.is_combined_ref /\ LastGroup1 # LastGroup2 /\ LastPlain) =>
           /\ last.labels = <<"interspecies translocation">>
           /\ region_misassemblies = <<INTERSPECTRANSLOCATION>>
           /\ references_misassemblies[LastGroup1][LastGroup2] = 1
           /\ references_misassemblies[LastGroup2][LastGroup1] = 1
           /\ references_misassemblies[LastGroup1][LastGroup1] = 0
           /\ references_misassemblies[LastGroup2][LastGroup2] = 0
    /\ (PairDone /\ last.labels # <<"interspecies translocation">>) =>
           \A g \in Groups, h \in Groups : references_misassemblies[g][h] = 0

\* an interspecies translocation was recorded
C8_Witness ==
    /\ PairDone /\ cfg.is_combined_ref /\ LastGroup1 # LastGroup2 /\ LastPlain
    /\ references_misassemblies["g1"]["g2"] = 1

\* the alignment lies within MAX_INDEL_LENGTH of its reference's start or end
NearRefEnd(a) == a.s1 - 1 <= MAX_INDEL_LENGTH \/ reg_lens[a.ref] - a.e1 <= MAX_INDEL_LENGTH
LastFragmentedCase ==
    /\ PairDone /\ cfg.check_for_fragmented_ref /\ ~LastSameRef
    /\ ~(cfg.is_combined_ref /\ LastGroup1 # LastGroup2)
    /\ NearRefEnd(last.align1) /\ NearRefEnd(last.align2)
    /\ LastPlain

\* C9: with the fragmented-reference check, a pair on two references (of one
\* group in combined mode) whose alignments both lie within MAX_INDEL_LENGTH of
\* an end of their reference is FRAGMENTED (fake) whatever the strands: no
\* extensive misassembly is recorded and the contig is not marked misassembled.
C9_Fragmented ==
    LastFragmentedCase =>
        /\ last.labels = <<FAKE_FRAGMENTED>>
        /\ region_misassemblies = <<FRAGMENTED>>
        /\ ~last.is_ext
        /\ ~is_misassembled
        /\ ref_features = {}

\* a fragmented-reference pair on opposite strands was walked
C9_Witness == LastFragmentedCase /\ LastStrandsDiffer /\ last.labels = <<FAKE_FRAGMENTED>>

(***************************************************************************)
(* Properties of the walk over the chosen alignments (SpecContig).         *)
(***************************************************************************)
\* C2: at the end of process_misassembled_contig the accumulator
\* contig_aligned_length is at most the contig length, under every ambiguity
\* policy and with strict_NA on or off: the assertion never fails.
C2_AlignedLengthBound ==
    /\ pc # "AssertionError"
    /\ pc \in {"last", "done", "reported"} => contig_aligned_length <= Len(contig_seq)

\* a list of three alignments with an overlap was walked to its end and the
\* whole contig counted as aligned
C2_Witness ==
    /\ pc = "last"
    /\ Len(sorted_aligns) = MaxAligns
    /\ last.aux.distance_on_contig < 0
    /\ contig_aligned_length = Len(contig_seq)

Sign(x) == IF x > 0 THEN 1 ELSE IF x < 0 THEN -1 ELSE 0
\* the lengths of the alignment agree with its coordinates and are positive
LengthConsistent(a) ==
    /\ a.len1 = a.e1 - a.s1 + 1
    /\ a.len2 = Abs(a.e2 - a.s2) + 1
    /\ a.len1 >= 1
    /\ a.len2 >= 1
\* the last iteration called exclude_internal_overlaps on an overlapping pair
ExcludedOverlap ==
    /\ i >= 1
    /\ last.excluding
    /\ last.aux.distance_on_contig < 0
    /\ cfg.ambiguity_usage \in {"one", "none"}

\* C3: after exclude_internal_overlaps on two alignments that overlap on the
\* contig, under the policies one and none, both alignments have
\* len1 = e1 - s1 + 1 >= 1 and len2 = |e2 - s2| + 1 >= 1 and keep their strand,
\* the sign of e2 - s2.
C3_LengthConsistency ==
    ExcludedOverlap =>
        /\ LengthConsistent(sorted_aligns[i])
        /\ LengthConsistent(sorted_aligns[i + 1])
        /\ Sign(sorted_aligns[i].e2 - sorted_aligns[i].s2)
               = Sign(last.align1.e2 - last.align1.s2)
        /\ Sign(sorted_aligns[i + 1].e2 - sorted_aligns[i + 1].s2)
               = Sign(last.align2.e2 - last.align2.s2)

(***************************************************************************)
(* Properties of the best-set search (SpecContig).                         *)
(***************************************************************************)
SearchDone == pc = "best" /\ idx = Len(sorted_aligns)
\* the bases of the contig covered by the alignments at the indexes S
CoveredBy(S) == UNION {start(sorted_aligns[k])..end(sorted_aligns[k]) : k \in S}
\* the penalties of the adjacent pairs of the subsequence at the indexes S
PenaltiesOf(S) ==
    LET sub == Pick(sorted_aligns, S)
    IN  SeqSum([k \in 1..(Len(sub) - 1) |-> pair_penalty(sub[k], sub[k + 1], cfg, contig_seq)])
\* sum of the added covered lengths minus sum of the pair penalties
Objective(S) == Cardinality(CoveredBy(S)) - PenaltiesOf(S)

\* C4: the index set returned by the best-set search has the maximum value of
\* the objective over all subsequences of the list.
C4_BestSetOptimal ==
    SearchDone =>
        \A S \in SUBSET (1..Len(sorted_aligns)) :
            Objective(S) <= Objective({best_set[k] : k \in 1..Len(best_set)})

(***************************************************************************)
(* Properties of the report (SpecContig).                                  *)
(***************************************************************************)
ExtensiveKinds == {RELOCATION, TRANSLOCATION, INTERSPECTRANSLOCATION, INVERSION}

\* C10: in every mode the reported number of misassemblies equals the number
\* of RELOCATION, TRANSLOCATION, INTERSPECIES_TRANSLOCATION and INVERSION
\* events in region_misassemblies.
C10_MisassemblyTotal ==
    report.written =>
        report.MISASSEMBL =
            Cardinality({k \in 1..Len(region_misassemblies) :
                            region_misassemblies[k] \in ExtensiveKinds})

(***************************************************************************)
(* Properties of the top hit (SpecSelect).                                 *)
(***************************************************************************)
\* an alignment of the best quality
TopHit ==
    aligns[CHOOSE k \in 1..Len(aligns) : \A j \in 1..Len(aligns) :
               aligns[k].len2 * aligns[k].idy >= aligns[j].len2 * aligns[j].idy]
Captured ==
    \/ 100 * TopHit.len2 > 99 * Len(contig_seq)
    \/ Len(contig_seq) - TopHit.len2 < maxun
\* the alignments within 1 % of the quality of the top hit
TopSet ==
    {k \in 1..Len(aligns) :
        100 * aligns[k].len2 * aligns[k].idy > 99 * TopHit.len2 * TopHit.idy}
KeptInRefAligns == SeqSum([k \in 1..2 |-> Len(ref_aligns[<<"A", "B">>[k]])]) + Len(ref_aligns["C"])
AmbiguousDone == pc \in {"done", "reported"} /\ Captured /\ Cardinality(TopSet) >= 2

\* C5: for a contig captured by an alignment family whose top_set has two or
\* more alignments, the number of alignments added to ref_aligns and written
\* to the filtered coords is 1 under policy one, 0 under none and |top_set|
\* under all.
C5_SelectorStability ==
    AmbiguousDone =>
        LET kept == IF cfg.ambiguity_usage = "one" THEN 1
                    ELSE IF cfg.ambiguity_usage = "none" THEN 0
                    ELSE Cardinality(TopSet)
        IN  KeptInRefAligns = kept /\ Len(coords_filtered) = kept

\* two of three alignments share the top quality and all of them are used
C5_Witness ==
    /\ AmbiguousDone
    /\ cfg.ambiguity_usage = "all"
    /\ Len(aligns) = 3
    /\ Cardinality(TopSet) = 2
    /\ Len(coords_filtered) = 2

(***************************************************************************)
(* Properties of a contig more unaligned than misassembled (SpecUnaligned).*)
(***************************************************************************)
\* the bases of the contig covered by the alignments of s
CoveredOnContig(s) == UNION {start(s[k])..end(s[k]) : k \in 1..Len(s)}
\* the step that hands two or more chosen alignments on
ChosenSeveral == pc = "best" /\ pc' # "best" /\ Len(best_set) >= 2
InSeq(x, s) == \E k \in 1..Len(s) : s[k] = x

\* C11: when the chosen alignments of a multi-alignment contig cover fewer than
\* 0.5 * ctg_len bases, partially_unaligned_with_misassembly and
\* partially_unaligned grow by 1, the contig is not added to
\* misassembled_contigs, no RELOCATION, TRANSLOCATION, INVERSION,
\* INTERSPECIES_TRANSLOCATION or LOCAL event is recorded, and every chosen
\* alignment is recorded in ref_aligns and in the filtered coords.
C11_MoreUnaligned ==
    [][(ChosenSeveral /\ 2 * Cardinality(CoveredOnContig(sorted_aligns')) < Len(contig_seq))
       => /\ pc' = "done"
          /\ partially_unaligned_with_misassembly' = partially_unaligned_with_misassembly + 1
          /\ partially_unaligned' = partially_unaligned + 1
          /\ misassembled_contigs' = misassembled_contigs
          /\ \A k \in 1..Len(region_misassemblies') :
                 region_misassemblies'[k] \notin ExtensiveKinds \cup {LOCAL_MIS}
          /\ \A k \in 1..Len(sorted_aligns') :
                 /\ InSeq(sorted_aligns'[k], ref_aligns'[sorted_aligns'[k].ref])
                 /\ InSeq([align |-> sorted_aligns'[k], ambiguous |-> FALSE],
                          coords_filtered')]_vars

\* two chosen alignments on opposite strands, which cover less than half of
\* the contig, were recorded as aligned and the contig is not misassembled
C11_Witness ==
    /\ pc = "done"
    /\ i = 0
    /\ Len(sorted_aligns) = 2
    /\ pos_strand(sorted_aligns[1]) # pos_strand(sorted_aligns[2])
    /\ partially_unaligned_with_misassembly = 1
    /\ Len(coords_filtered) = 2
    /\ misassembled_contigs = {}

(***************************************************************************)
(* Properties of the ambiguously mapped contigs (SpecSelect).              *)
(***************************************************************************)
TopSetClen == SeqSum([k \in 1..Len(aligns) |-> IF k \in TopSet THEN aligns[k].len2 ELSE 0])

\* C12: an ambiguous contig adds 1 to ambiguous_contigs; under the policy none
\* it changes ambiguous_contigs_extra_bases by -top.clen; under all it changes
\* it by the sum of clen over all of top_set but the first and appends exactly
\* one aligned length, the clen of the first; under one the extra bases
\* reported for the assembly are 0.
C12_AmbiguousExtraBases ==
    AmbiguousDone =>
        /\ ambiguous_contigs = 1
        /\ cfg.ambiguity_usage = "none" => ambiguous_contigs_extra_bases = -TopHit.len2
        /\ cfg.ambiguity_usage = "all" =>
               /\ ambiguous_contigs_extra_bases = TopSetClen - TopHit.len2
               /\ aligned_lengths = <<TopHit.len2>>
        /\ (cfg.ambiguity_usage = "one" /\ pc = "reported") =>
               /\ report.AMBIGUOUSEXTRABASES = 0
               /\ report.AMBIGUOUS = 1

\* an ambiguous contig under the policy one was reported with no extra bases
C12_Witness ==
    /\ AmbiguousDone
    /\ pc = "reported"
    /\ cfg.ambiguity_usage = "one"
    /\ Cardinality(TopSet) = 3
    /\ aligned_lengths = <<TopHit.len2>>
    /\ report.AMBIGUOUSEXTRABASES = 0

(***************************************************************************)
(* Properties of the coverage walk (SpecCoverage).                         *)
(***************************************************************************)
\* the reference positions of the region that the kept alignments cover
KeptUnion ==
    UNION {(aligns[k].s1..aligns[k].e1) \cap (1..reg_lens["A"]) : k \in 1..Len(aligns)}

\* C13: after the reference coverage walk, region_covered is the number of
\* reference positions covered by at least one kept alignment, for nested,
\* overlapping and identical reference intervals too.
C13_CoverageSum == pc = "covered" => region_covered = Cardinality(KeptUnion)


\* the lengths of the maximal runs of the accepted deletions s[k..]: a run
\* goes on within one alignment, at the next reference position and the same
\* contig position; acc holds the runs so far, the last of them open
RECURSIVE DeletionRuns(_, _, _)
DeletionRuns(s, k, acc) ==
    IF k > Len(s) THEN acc
    ELSE IF /\ k > 1
            /\ s[k].counter = s[k - 1].counter
            /\ s[k].snp.ref_pos = s[k - 1].snp.ref_pos + 1
            /\ s[k].snp.ctg_pos = s[k - 1].snp.ctg_pos
    THEN DeletionRuns(s, k + 1, [acc EXCEPT ![Len(acc)] = @ + 1])
    ELSE DeletionRuns(s, k + 1, Append(acc, 1))
OnlyDeletionsUsed == \A k \in 1..Len(used_snps) : used_snps[k].snp.type = "D"

best_set_iteration_forgetful(sets, max_score_, best_set_, idx_, sorted_aligns_, cfg_, seq) ==
    LET st == scan_scored_sets(sets, 1, idx_, sorted_aligns_, cfg_, seq, max_score_,
                               [cur_max_score |-> 0, new_scored_set |-> <<>>,
                                sets_to_remove |-> {}])
        better == st.new_scored_set # <<>> /\ st.cur_max_score > max_score_
    IN  <<Pick(sets, (1..Len(sets)) \ st.sets_to_remove)
              \o (IF better THEN st.new_scored_set ELSE <<>>),
          IF better THEN st.cur_max_score ELSE max_score_,
          IF better THEN st.new_scored_set[1].indexes ELSE best_set_>>

best_set_iteration(sets, max_score_, best_set_, idx_, sorted_aligns_, cfg_, seq) ==
    LET st == scan_scored_sets(sets, 1, idx_, sorted_aligns_, cfg_, seq, max_score_,
                               [cur_max_score |-> 0, new_scored_set |-> <<>>,
                                sets_to_remove |-> {}])
        better == st.new_scored_set # <<>> /\ st.cur_max_score > max_score_
    IN  <<Pick(sets, (1..Len(sets)) \ st.sets_to_remove) \o st.new_scored_set,
          IF better THEN st.cur_max_score ELSE max_score_,
          IF better THEN st.new_scored_set[1].indexes ELSE best_set_>>

RECURSIVE best_set_search(_, _, _, _, _)
best_set_search(sorted_aligns_, idx_, cfg_, seq, acc) ==
    IF idx_ > Len(sorted_aligns_) THEN acc
    ELSE best_set_search(sorted_aligns_, idx_ + 1, cfg_, seq,
                         best_set_iteration(acc[1], acc[2], acc[3], idx_,
                                            sorted_aligns_, cfg_, seq))

\* the search from its start, over the whole list
searched(sorted_aligns_, cfg_, seq) ==
    best_set_search(sorted_aligns_, 1, cfg_, seq,
                    <<<<ScoredAlignSet(0, <<>>, Len(seq))>>, 0, <<>>>>)

\* the list s with the alignment x before position p
Inserted(s, p, x) == SubSeq(s, 1, p - 1) \o <<x>> \o SubSeq(s, p, Len(s))

\* the candidate lists made of the list of the search and one more
\* alignment, on the contig inside the alignments of the optimum
WithCoveredAlign ==
    {Inserted(sorted_aligns, p, x) :
        p \in 1..(Len(sorted_aligns) + 1),
        x \in {a \in Candidates :
                  /\ ~InSeq(a, sorted_aligns)
                  /\ start(a)..end(a) \subseteq
                         CoveredBy({best_set[k] : k \in 1..Len(best_set)})}}

(***************************************************************************)
(* SpecSearch: the best-set search alone, over the candidate lists that    *)
(* leave room for one more alignment.                                      *)
(***************************************************************************)
SearchConfigs ==
    {c \in ContigConfigs : c.ambiguity_usage # "all" /\ ~c.strict_NA}

InitSearch ==
    \E c \in SearchConfigs, al \in {s \in CandidateLists : Len(s) < MaxAligns} :
        /\ Loaded(c, ContigWithNs(CtgLen, 1, 0), al)
        /\ NoCoverage
        /\ NoDo
        /\ NoWalk
        /\ sorted_aligns = al
        /\ pc = "best"
        /\ idx = 0
        /\ all_scored_sets = <<ScoredAlignSet(0, <<>>, CtgLen)>>
        /\ max_score = 0
        /\ best_set = <<>>

NextSearch == BestSetStep

SpecSearch == InitSearch /\ [][NextSearch]_vars

\* the function agrees with the search of the behaviour
SearchAsFunction ==
    SearchDone =>
        searched(sorted_aligns, cfg, contig_seq) = <<all_scored_sets, max_score, best_set>>

SearchableList(s) ==
    /\ SortedCandidates(s)
    /\ ~top_hit_captures(sorted_by_quality(s)[1].len2, Len(contig_seq))

Num(n) == [t |-> "num", n |-> n, s |-> ""]
Pipe == [t |-> "sym", n |-> 0, s |-> "|"]
Word(w) == [t |-> "word", n |-> 0, s |-> w]

\* NucmerStatus
FAILED == 0
OK == 1
NOT_ALIGNED == 2
ERROR == 3

\* str(n): the decimal digits of n, as characters
digit(d) == <<"0", "1", "2", "3", "4", "5", "6", "7", "8", "9">>[d + 1]
RECURSIVE str(_)
str(n) == IF n < 10 THEN <<digit(n)>> ELSE str(n \div 10) \o <<digit(n % 10)>>

\* s.endswith(t)
endswith(s, t) ==
    /\ Len(t) <= Len(s)
    /\ SubSeq(s, Len(s) - Len(t) + 1, Len(s)) = t

\* the characters of a line of the sentinel file: the text before the
\* number stands for itself and holds no digit
size_line(text, size) == <<text>> \o str(size)

\* create_nucmer_successful_check (lines 154-160): the lines of the file
create_nucmer_successful_check(contigs_size, ref_size) ==
    <<size_line("Assembly file size in bytes: ", contigs_size),
      size_line("Reference file size in bytes: ", ref_size),
      <<"Successfully finished on ">>>>

\* the sizes are compared as numbers
check_nucmer_successful_check_by_value(successful_check_content, contigs_size, ref_size) ==
    /\ Len(successful_check_content) >= 2
    /\ successful_check_content[1] = size_line("Assembly file size in bytes: ", contigs_size)
    /\ successful_check_content[2] = size_line("Reference file size in bytes: ", ref_size)

\* check_nucmer_successful_check (lines 163-171)
check_nucmer_successful_check(successful_check_content, contigs_size, ref_size) ==
    /\ Len(successful_check_content) >= 2
    /\ endswith(successful_check_content[1], str(contigs_size))
    /\ endswith(successful_check_content[2], str(ref_size))

\* Mapping.from_line (lines 68-78): <<"", mapping>> or the exception raised
from_line(line) ==
    IF Len(line) < 6 THEN <<"IndexError">>
    ELSE IF line[3] # line[6] THEN <<"AssertionError">>
    ELSE IF Len(line) < 9 THEN <<"IndexError">>
    ELSE IF line[6] # line[9] THEN <<"AssertionError">>
    ELSE IF Len(line) < 11 THEN <<"IndexError">>
    ELSE IF line[9] # line[11] \/ line[11] # Pipe THEN <<"AssertionError">>
    ELSE IF Len(line) < 13 THEN <<"IndexError">>
    ELSE IF \E k \in {1, 2, 4, 5, 7, 8, 10} : line[k].t # "num" THEN <<"ValueError">>
    ELSE <<"", Mapping(line[1].n, line[2].n, line[4].n, line[5].n, line[7].n, line[8].n,
                       line[10].n, line[12].s, line[13].s)>>

\* a record that cannot be parsed is left out
RECURSIVE parsing_coords_dropping(_, _, _)
parsing_coords_dropping(lines, k, loaded) ==
    IF k > Len(lines) \/ lines[k] = <<>> THEN <<"", loaded>>
    ELSE IF lines[k][1] = Word("=====") THEN <<"AssertionError">>
    ELSE LET mapping == from_line(lines[k])
         IN  parsing_coords_dropping(lines, k + 1,
                 IF mapping[1] # "" THEN loaded ELSE Append(loaded, mapping[2]))

\* "Parsing coords..." (lines 359-376) from the line k on: <<"", the mappings
\* loaded into aligns>> or the exception raised
RECURSIVE parsing_coords(_, _, _)
parsing_coords(lines, k, loaded) ==
    IF k > Len(lines) \/ lines[k] = <<>> THEN <<"", loaded>>
    ELSE IF lines[k][1] = Word("=====") THEN <<"AssertionError">>
    ELSE LET mapping == from_line(lines[k])
         IN  IF mapping[1] # "" THEN <<mapping[1]>>
             ELSE parsing_coords(lines, k + 1, Append(loaded, mapping[2]))

\* "removing waste lines from coords file" (lines 311-322): the last two
\* lines of the header, which ends at the line of ='s, then the other lines
remove_waste_lines(tmp_coords) ==
    LET ends == {k \in 1..Len(tmp_coords) :
                    tmp_coords[k] # <<>> /\ tmp_coords[k][1] = Word("=====")}
        h == IF ends = {} THEN Len(tmp_coords)
             ELSE CHOOSE k \in ends : \A j \in ends : k <= j
    IN  IF h < 2 THEN <<"IndexError">>
        ELSE <<"", SubSeq(tmp_coords, h - 1, Len(tmp_coords))>>


\* what plantakolya returns to do(), and the files it leaves
Outcome(status, full, loaded, raised, invoked, f) ==
    [status |-> status, result |-> [full |-> full, loaded |-> loaded],
     raised |-> raised, invoked |-> invoked, files |-> f]

\* __fail (lines 147-151)
__fail(f) == Outcome(<<ERROR>>, FALSE, <<>>, "", TRUE, f)

\* lines 213-220: the outputs of an earlier run are there and the sentinel
\* file passes its check
using_existing_alignments(e, f, show_snps, ref_size) ==
    /\ f.sf # <<>>
    /\ f.coords # <<>>
    /\ f.all_snps \/ ~show_snps
    /\ check_nucmer_successful_check(f.sf[1], e.size, ref_size)

\* lines 357-376 and the end of plantakolya (lines 1717-1726, 1756-1759):
\* the coords file is parsed and the contigs analysed; nothing_aligned when
\* no alignment was loaded
load_and_analyse(invoked, f) ==
    LET parsed == parsing_coords(f.coords[1], 3, <<>>)
    IN  IF parsed[1] # "" THEN Outcome(<<>>, FALSE, <<>>, parsed[1], invoked, f)
        ELSE Outcome(<<IF parsed[2] = <<>> THEN NOT_ALIGNED ELSE OK>>, TRUE, parsed[2], "",
                     invoked, f)

\* plantakolya, lines 211-376, and what it returns: e is the assembly (the
\* size of its file, what the tools do for it), f its files in nucmer_output
plantakolya(e, f, show_snps, ref_size) ==
    IF using_existing_alignments(e, f, show_snps, ref_size)
    THEN load_and_analyse(FALSE, f)
    ELSE IF e.fails \in {"nucmer", "delta-filter", "show-coords"} THEN __fail(f)
    ELSE LET cleaned == remove_waste_lines(e.tmp_coords)
             f1 == [f EXCEPT !.coords = <<cleaned[2]>>]
             f2 == [f1 EXCEPT !.all_snps = @ \/ show_snps]
         IN  IF cleaned[1] # "" THEN Outcome(<<>>, FALSE, <<>>, cleaned[1], TRUE, f)
             ELSE IF Len(cleaned[2][Len(cleaned[2])]) < 13
             THEN Outcome(<<NOT_ALIGNED>>, FALSE, <<>>, "", TRUE, f1)
             ELSE IF show_snps /\ e.fails = "show-snps" THEN __fail(f2)
             ELSE load_and_analyse(TRUE,
                      [f2 EXCEPT !.sf = <<create_nucmer_successful_check(e.size, ref_size)>>])

(***************************************************************************)
(* do() (lines 1775-2000) without a split reference: Parallel runs         *)
(* plantakolya_process for every assembly on n_jobs workers and returns    *)
(* what they returned in the order of the tasks.                           *)
(***************************************************************************)
n_jobs == Min2(Len(env.asm), env.max_threads)

\* the statuses in the order in which the workers ended
statuses_by_completion(outcomes, completion) ==
    [k \in 1..Len(outcomes) |-> outcomes[completion[k]][1].status[1]]

\* "unzipping" (lines 1818-1820): statuses[index]
statuses_of(outcomes, completion) ==
    [k \in 1..Len(outcomes) |-> outcomes[k][1].status[1]]

\* save_result (lines 1906-1980) and save_result_for_unaligned (lines
\* 1982-1991) for the assembly e with the status and the result given
report_of(e, status, result) ==
    IF status = NOT_ALIGNED
    THEN [kind |-> "save_result_for_unaligned", result |-> result,
          UNALIGNED |-> <<e.CONTIGS, 0>>, UNALIGNEDBASES |-> <<e.TOTALLEN>>,
          UNALIGNED_FULL_CNTGS |-> <<e.CONTIGS>>,
          UNALIGNED_FULL_LENGTH |-> <<e.TOTALLEN>>]
    ELSE [kind |-> IF status = OK THEN "save_result" ELSE "",
          result |-> result, UNALIGNED |-> <<>>, UNALIGNEDBASES |-> <<>>,
          UNALIGNED_FULL_CNTGS |-> <<>>, UNALIGNED_FULL_LENGTH |-> <<>>]

Idle == [pc |-> "pool", nucmer_statuses |-> <<>>, reports |-> <<>>, raised |-> ""]

Queued(n) ==
    [pending |-> [k \in 1..n |-> k], running |-> {}, outcomes |-> [k \in 1..n |-> <<>>],
     completion |-> <<>>]

\* a worker that is free takes the next task
Dispatch ==
    /\ do_out.pc = "pool"
    /\ pool.pending # <<>>
    /\ Cardinality(pool.running) < n_jobs
    /\ pool' = [pool EXCEPT !.pending = Tail(@), !.running = @ \cup {Head(pool.pending)}]
    /\ UNCHANGED <<env, files, do_out, analysis_vars>>

\* plantakolya_process (lines 1762-1772) of an assembly a ends: any of the
\* running ones
Finish ==
    /\ do_out.pc = "pool"
    /\ \E a \in pool.running :
       \E o \in {plantakolya(env.asm[a], files[a], env.show_snps, env.ref_size)} :
         /\ files' = [files EXCEPT ![a] = o.files]
         /\ pool' = [pool EXCEPT !.running = @ \ {a},
                                 !.outcomes[a] = <<o>>,
                                 !.completion = Append(@, a)]
    /\ UNCHANGED <<env, do_out, analysis_vars>>

\* Parallel returns, or raises what a worker raised; lines 1818-1820 and
\* 1993-2000
Collect ==
    /\ do_out.pc = "pool"
    /\ pool.pending = <<>>
    /\ pool.running = {}
    /\ LET raising == {k \in 1..Len(pool.outcomes) : pool.outcomes[k][1].raised # ""}
       IN  IF raising # {}
           THEN do_out' = [do_out EXCEPT
                    !.pc = "raised",
                    !.raised = pool.outcomes[CHOOSE k \in raising :
                                                 \A j \in raising : k <= j][1].raised]
           ELSE \E statuses \in {statuses_of(pool.outcomes, pool.completion)} :
                  do_out' = [do_out EXCEPT
                      !.pc = "returned",
                      !.nucmer_statuses = [k \in 1..Len(statuses) |-> <<k, statuses[k]>>],
                      !.reports = [k \in 1..Len(statuses) |->
                                      report_of(env.asm[k], statuses[k],
                                                pool.outcomes[k][1].result)]]
    /\ UNCHANGED <<env, files, pool, analysis_vars>>


(***************************************************************************)
(* The runs of do().  The tools write what show-coords prints: the two     *)
(* paths, NUCMER, the column names and the line of ='s, then the records.  *)
(***************************************************************************)
Record(s1, contig) ==
    <<Num(s1), Num(s1 + AlnLen - 1), Pipe, Num(1), Num(AlnLen), Pipe, Num(AlnLen),
      Num(AlnLen), Pipe, Num(100), Pipe, Word("A"), Word(contig)>>

\* the record without its last column
MissingColumn(line) == SubSeq(line, 1, Len(line) - 1)
\* the record without its first pipe
MissingPipe(line) == SubSeq(line, 1, 2) \o SubSeq(line, 4, Len(line))
\* the record with a word for its first coordinate
NonNumeric(line) == <<Word("x")>> \o Tail(line)

ShowCoords(records) ==
    <<<<Word("/ref.fasta"), Word("/contigs.fasta")>>, <<Word("NUCMER")>>,
      <<Word("[S1]"), Word("[E1]"), Pipe, Word("[S2]"), Word("[E2]")>>,
      <<Word("=====")>>>> \o records

\* what show-coords prints for alignments found, or for none
AlignedStreams ==
    {ShowCoords(<<>>), ShowCoords(<<Record(1, "c1")>>),
     ShowCoords(<<Record(1, "c1"), Record(3, "c2")>>)}

\* the same with a record that cannot be parsed, or a last line cut short
CoordsStreams ==
    AlignedStreams
    \cup {ShowCoords(<<Record(1, "c1"), bad, Record(3, "c2")>>) :
             bad \in {MissingColumn(Record(2, "c1")), MissingPipe(Record(2, "c1")),
                      NonNumeric(Record(2, "c1"))}}
    \cup {ShowCoords(<<Record(1, "c1"), MissingColumn(Record(3, "c2"))>>),
          ShowCoords(<<Record(1, "c1"), <<>>>>)}

Assembly(size, fails, tmp_coords) ==
    [size |-> size, fails |-> fails, tmp_coords |-> tmp_coords,
     CONTIGS |-> AsmContigs, TOTALLEN |-> AsmContigs * CtgLen]

NoFiles == [sf |-> <<>>, coords |-> <<>>, all_snps |-> FALSE]

\* no contig is being analysed
NoAnalysis ==
    /\ Loaded(Config(FALSE, FALSE, FALSE, FALSE, "one", FALSE, FALSE, FALSE, NoSVs),
              <<>>, <<>>)
    /\ NoCoverage
    /\ NoSearch
    /\ NoWalk
    /\ sorted_aligns = <<>>
    /\ pc = "do"

\* the runs of do() over one assembly: its file, the reference and what the
\* tools do change from run to run
LoadEnvs(run) ==
    {[show_snps |-> sn, max_threads |-> 1, ref_size |-> rs, run |-> run,
      asm |-> <<Assembly(sz, fl, tc)>>] :
        sn \in BOOLEAN, rs \in {SmallSize, LargeSize}, sz \in {SmallSize, LargeSize},
        fl \in {"none", "nucmer", "show-snps"}, tc \in CoordsStreams}

\* do() is called again over the same output directory
NextRun ==
    /\ do_out.pc \in {"returned", "raised"}
    /\ env.run < MaxRuns
    /\ env' \in LoadEnvs(env.run + 1)
    /\ pool' = Queued(Len(env.asm))
    /\ do_out' = Idle
    /\ UNCHANGED <<files, analysis_vars>>

(***************************************************************************)
(* SpecLoad: up to MaxRuns runs of do() for one assembly, from an empty    *)
(* nucmer_output directory.                                                *)
(***************************************************************************)
InitLoad ==
    /\ NoAnalysis
    /\ env \in LoadEnvs(1)
    /\ files = <<NoFiles>>
    /\ pool = Queued(1)
    /\ do_out = Idle

NextLoad ==
    \/ Dispatch
    \/ Finish
    \/ Collect
    \/ NextRun

SpecLoad == InitLoad /\ [][NextLoad]_vars

(***************************************************************************)
(* SpecPool: one run of do() for NAsm assemblies with 1..NAsm threads;     *)
(* the aligner fails for any of them.                                      *)
(***************************************************************************)
PoolEnvs ==
    {[show_snps |-> FALSE, max_threads |-> mt, ref_size |-> SmallSize, run |-> 1,
      asm |-> [k \in 1..NAsm |-> Assembly(SmallSize, fl[k], tc[k])]] :
        mt \in 1..NAsm, fl \in [1..NAsm -> {"none", "nucmer"}],
        tc \in [1..NAsm -> AlignedStreams]}

InitPool ==
    /\ NoAnalysis
    /\ env \in PoolEnvs
    /\ files = [k \in 1..NAsm |-> NoFiles]
    /\ pool = Queued(NAsm)
    /\ do_out = Idle

NextPool ==
    \/ Dispatch
    \/ Finish
    \/ Collect

SpecPool == InitPool /\ [][NextPool]_vars


(***************************************************************************)
(* Properties of do() and of the loading of the files.                     *)
(***************************************************************************)
Returned(a) == pool.outcomes[a][1]

C17_MalformedDropped ==
    \A a \in 1..Len(pool.outcomes) :
        pool.outcomes[a] # <<>> =>
            /\ Returned(a).raised = ""
            /\ Returned(a).result.full =>
                   Returned(a).result.loaded
                       = parsing_coords_dropping(files[a].coords[1], 3, <<>>)[2]

\* the coords file the run of the assembly a worked on has no record, or its
\* last line has fewer than 13 tokens
NothingAligned(a) ==
    /\ pool.outcomes[a] # <<>>
    /\ Returned(a).status # <<ERROR>>
    /\ files[a].coords # <<>>
    /\ Len(files[a].coords[1][Len(files[a].coords[1])]) < 13

\* C18: an assembly whose coords file holds no record, or ends with a line
\* of fewer than 13 tokens, is NOT_ALIGNED, the file just written or reused,
\* and its report says that all its contigs are unaligned, none partially.
C18_NoAlignments ==
    \A a \in 1..Len(pool.outcomes) :
        NothingAligned(a) =>
            /\ Returned(a).status = <<NOT_ALIGNED>>
            /\ do_out.pc # "raised"
            /\ do_out.pc = "returned" =>
                   /\ do_out.reports[a].kind = "save_result_for_unaligned"
                   /\ do_out.reports[a].UNALIGNED = <<env.asm[a].CONTIGS, 0>>
                   /\ do_out.reports[a].UNALIGNED_FULL_CNTGS = <<env.asm[a].CONTIGS>>

\* C19: the files of an earlier run are used, and the aligner is not run,
\* only if the sentinel file and the coords file exist, the SNP file exists
\* or no SNPs are asked for, and the sizes written in the sentinel file are
\* the sizes of the assembly and of the reference; otherwise the aligner is
\* run.
C19_SentinelReuse ==
    \A a \in 1..Len(pool.outcomes) :
        (pool.outcomes[a] # <<>> /\ ~Returned(a).invoked) =>
            /\ files[a].sf # <<>>
            /\ files[a].coords # <<>>
            /\ files[a].all_snps \/ ~env.show_snps
            /\ check_nucmer_successful_check_by_value(files[a].sf[1], env.asm[a].size,
                                                      env.ref_size)


(***************************************************************************)
(* Properties of the misassembled contigs (SpecContig).                    *)
(***************************************************************************)
\* C20: once the contig is processed it is a key of misassembled_contigs,
\* with its length as the value, if and only if one of its adjacent pairs
\* was labelled RELOCATION, TRANSLOCATION, INTERSPECIES_TRANSLOCATION or
\* INVERSION; local and fake events alone do not add it; the reported
\* misassembled bases are the sum of the lengths of the contigs in it.
C20_MisassembledContigs ==
    pc \in {"done", "reported"} =>
        /\ misassembled_contigs \subseteq {<<aligns[1].contig, Len(contig_seq)>>}
        /\ misassembled_contigs # {} <=>
               \E k \in 1..Len(region_misassemblies) :
                   region_misassemblies[k] \in ExtensiveKinds
        /\ pc = "reported" =>
               /\ report.MISCONTIGSBASES
                      = (IF misassembled_contigs = {} THEN 0 ELSE Len(contig_seq))
               /\ report.MIS_EXTENSIVE_BASES = report.MISCONTIGSBASES

\* a contig with an extensive misassembly and its length are reported
C20_Witness ==
    /\ pc = "reported"
    /\ misassembled_contigs = {<<aligns[1].contig, CtgLen>>}
    /\ report.MISCONTIGSBASES = CtgLen
    /\ \E k \in 1..Len(region_misassemblies) : region_misassemblies[k] = RELOCATION


(***************************************************************************)
(* Properties of the markers, the scaffold-gap rule and the exclusion of   *)
(* internal overlaps (specification Spec).                                 *)
(***************************************************************************)
\* the last pair walked was labelled with an extensive misassembly
LastExtensive == PairDone /\ is_misassembled

\* C21: for a pair (p, q) labelled with an extensive misassembly the markers
\* 'M' written into ref_features are exactly two, one at position p.e1 of
\* p's reference and one at position q.s1 of q's reference.
C21_MisassemblyMarkers ==
    LastExtensive =>
        ref_features = {<<sorted_aligns[1].ref, sorted_aligns[1].e1>>,
                        <<sorted_aligns[2].ref, sorted_aligns[2].s1>>}


\* the contig positions of an alignment
Interval(a) == start(a)..end(a)
\* the last iteration called exclude_internal_overlaps on a pair with a
\* negative contig gap
OverlapGiven == i >= 1 /\ last.excluding /\ last.aux.distance_on_contig < 0
\* the value returned by that call
Excluded == exclude_internal_overlaps(last.align1, last.align2, cfg.ambiguity_usage)[3]

LastRule5 ==
    /\ PairDone /\ LastSameRef /\ ~LastStrandsDiffer /\ LastPlain
    /\ Abs(last.aux.inconsistency) <= smgap
    /\ ~(last.aux.inconsistency = 0 /\ last.aux.cyclic_moment)
\* the bases other than N between the two alignments as the walk left them
LastNotNs ==
    Cardinality({k \in 1..Len(contig_seq) :
                    /\ end(sorted_aligns[1]) < k /\ k < start(sorted_aligns[2])
                    /\ contig_seq[k] # "N"})
LastFakeIndel ==
    /\ Abs(last.aux.inconsistency) <= MAX_INDEL_LENGTH
    /\ LastNotNs <= MAX_INDEL_LENGTH

\* C25: a pair of rule 5 is a fake indel if |inconsistency| <= MAX_INDEL_LENGTH
\* and at most MAX_INDEL_LENGTH bases other than N lie between the two
\* alignments, and LOCAL otherwise; a fake indel with inconsistency # 0 adds
\* |inconsistency| to indels_list, as an insertion when inconsistency < 0 and
\* as a deletion when inconsistency > 0.
C25_Rule5 ==
    LastRule5 =>
        IF LastFakeIndel
        THEN /\ last.labels = <<FAKE_INDEL>>
             /\ region_misassemblies = <<>>
             /\ indels_info.indels_list =
                    IF last.aux.inconsistency = 0 THEN <<>>
                    ELSE <<Abs(last.aux.inconsistency)>>
             /\ indels_info.insertions =
                    IF last.aux.inconsistency < 0 THEN -last.aux.inconsistency ELSE 0
             /\ indels_info.deletions =
                    IF last.aux.inconsistency > 0 THEN last.aux.inconsistency ELSE 0
        ELSE /\ last.labels = <<"local misassembly">>
             /\ region_misassemblies = <<LOCAL_MIS>>
             /\ indels_info.indels_list = <<>>

\* a fake indel that is an insertion was recorded
C25_Witness ==
    /\ LastRule5 /\ LastFakeIndel
    /\ last.aux.inconsistency < 0
    /\ indels_info.insertions = 1
\* a local misassembly whose inconsistency is small but whose gap holds more
\* than MAX_INDEL_LENGTH bases other than N
C25_WitnessLocal ==
    /\ LastRule5 /\ ~LastFakeIndel
    /\ Abs(last.aux.inconsistency) <= MAX_INDEL_LENGTH
    /\ region_misassemblies = <<LOCAL_MIS>>

\* ref_gap of the last pair: the distance on the reference before any wrap
LastRefGap ==
    IF pos_strand(last.align1) \/ pos_strand(last.align2)
    THEN last.align2.s1 - last.align1.e1 - 1
    ELSE last.align1.s1 - last.align2.e1 - 1
\* the distance that distance_between_alignments returned for the last pair
LastDistance == last.aux.inconsistency + last.aux.distance_on_contig
LastRefLen == reg_lens[last.align1.ref]
\* the wrapped distance of smaller absolute value
LastWrapped ==
    IF Abs(LastRefGap + LastRefLen) < Abs(LastRefGap - LastRefLen)
    THEN LastRefGap + LastRefLen ELSE LastRefGap - LastRefLen
LastCircular == PairDone /\ cfg.cyclic /\ LastSameRef

\* C27: for a pair on one circular reference of length L, whenever
\* |ref_gap + L| or |ref_gap - L| is below extensive_misassembly_threshold the
\* distance returned is the wrapped one of smaller absolute value and
\* cyclic_moment is true; whenever cyclic_moment is true the distance is
\* strictly smaller in absolute value than ref_gap; on a reference that is
\* not circular, or for a pair on two references, cyclic_moment is false.
C27_CyclicAdjustment ==
    /\ (LastCircular /\ Abs(LastWrapped) < smgap) =>
           /\ last.aux.cyclic_moment
           /\ LastDistance = LastWrapped
    /\ (LastCircular /\ last.aux.cyclic_moment) => Abs(LastDistance) < Abs(LastRefGap)
    /\ (PairDone /\ ~LastCircular) => ~last.aux.cyclic_moment

(***************************************************************************)
(* Properties of the filtered coords file (SpecContig).                    *)
(***************************************************************************)
\* C29: process_misassembled_contig on n chosen alignments writes exactly n
\* records to the filtered coords file, one per alignment and in the order
\* of the contig, each with the coordinates the alignment has at the end,
\* after the exclusion of the overlaps with its predecessor and its successor.
C29_FilteredCoords ==
    /\ pc = "walk" => Len(coords_filtered) = i
    /\ pc = "last" =>
           /\ coords_filtered = [k \in 1..Len(sorted_aligns) |->
                                    [align |-> sorted_aligns[k], ambiguous |-> FALSE]]
           /\ \A k \in 1..(Len(coords_filtered) - 1) :
                  start(coords_filtered[k].align) <= start(coords_filtered[k + 1].align)

\* three alignments were walked and the record of the middle one shows it
\* trimmed on both sides
C29_Witness ==
    /\ pc = "last"
    /\ Len(coords_filtered) = 3
    /\ cfg.ambiguity_usage = "none"
    /\ \E k \in 1..Len(aligns) :
           /\ start(aligns[k]) < start(coords_filtered[2].align)
           /\ end(coords_filtered[2].align) < end(aligns[k])
           /\ aligns[k].s1 < coords_filtered[2].align.s1
           /\ coords_filtered[2].align.e1 < aligns[k].e1

(***************************************************************************)
(* Properties of the extra skipping of redundant alignments (SpecContig).  *)
(***************************************************************************)
\* the chosen alignments sorted by position, as the pass receives them
ChosenByPosition ==
    sorted_by_position([k \in 1..Len(best_set) |-> sorted_aligns[best_set[k]]])
\* the positions of ChosenByPosition that the list s keeps
KeptOf(s) == {k \in 1..Len(ChosenByPosition) : InSeq(ChosenByPosition[k], s)}
\* the last position before k that s keeps
KeptBefore(s, k) == CHOOSE j \in KeptOf(s) : j < k /\ \A h \in KeptOf(s) : h < k => h <= j
\* the alignment at the interior position k may be removed: the gap between
\* the kept predecessor and the successor is at most odgap, and it is below
\* oat or more than ort of the alignment is overlapped by the two
Redundant(s, k) ==
    LET prev_end == end(ChosenByPosition[KeptBefore(s, k)])
        succ_start == start(ChosenByPosition[k + 1])
        cur == ChosenByPosition[k]
        gap == succ_start - prev_end - 1
        overlap == Max2(0, prev_end - start(cur) + 1) + Max2(0, end(cur) - succ_start + 1)
    IN  /\ gap <= odgap
        /\ gap < oat \/ 100 * overlap > ort * cur.len2

AlignsOf(scored_set) ==
    [k \in 1..Len(scored_set.indexes) |-> sorted_aligns[scored_set.indexes[k]]]
\* the contig positions covered by the alignments of a sequence
Covered(s) == UNION {Interval(s[k]) : k \in 1..Len(s)}

\* C24: for every scored set of the search (a chosen prefix, in the order of
\* the contig ends) and the candidate appended to it, __get_added_len returns
\* the number of contig positions that the candidate covers and no alignment
\* of the prefix covers; for a candidate past the prefix, its length len2.
C24_AddedLength ==
    (pc = "best" /\ idx < Len(sorted_aligns)) =>
        \A j \in 1..Len(all_scored_sets) :
            Len(all_scored_sets[j].indexes) >= 1 =>
                __get_added_len(Append(AlignsOf(all_scored_sets[j]), sorted_aligns[idx + 1]),
                                sorted_aligns[idx + 1])
                    = Cardinality(Interval(sorted_aligns[idx + 1])
                                      \ Covered(AlignsOf(all_scored_sets[j])))

(***************************************************************************)
(* SpecScaffold: process_misassembled_contig on a scaffold, a contig of    *)
(* two alignments of ScaffoldAlnLen bases separated by GapLen bases (or by *)
(* one base) that are N except for at most two of them.  Neither the       *)
(* cyclic test nor the fragmented-reference test is on, so the length of   *)
(* the reference is not read: the alignments lie anywhere on references    *)
(* long enough to hold them.                                               *)
(***************************************************************************)
ScaffoldCtgLen == 2 * ScaffoldAlnLen + GapLen
ScaffoldGap == (ScaffoldAlnLen + 1)..(ScaffoldAlnLen + GapLen)
\* the contig whose gap is N except at the positions not_ns
Scaffold(not_ns) ==
    [k \in 1..ScaffoldCtgLen |-> IF k \in ScaffoldGap \ not_ns THEN "N" ELSE "A"]
ScaffoldSeqs ==
    {Scaffold({})} \cup {Scaffold({k}) : k \in ScaffoldGap}
    \cup {Scaffold({ScaffoldAlnLen + 1, ScaffoldAlnLen + 2})}
ScaffoldConfigs ==
    {Config(sc, FALSE, FALSE, FALSE, "one", FALSE, FALSE, FALSE, NoSVs) : sc \in BOOLEAN}
ScaffoldFirstAligns == {Aln("A", 1, 1, ScaffoldAlnLen, fwd) : fwd \in BOOLEAN}
ScaffoldNextAligns ==
    {Aln(ref, s1, cs, ScaffoldAlnLen, fwd) :
        ref \in {"A", "B"},
        s1 \in 1..(ScaffoldAlnLen + GapLen + scaffolds_gap_threshold + 2),
        cs \in {ScaffoldAlnLen + 2, ScaffoldAlnLen + GapLen + 1},
        fwd \in BOOLEAN}

InitScaffold ==
    \E c \in ScaffoldConfigs, sq \in ScaffoldSeqs, first \in ScaffoldFirstAligns,
       next \in ScaffoldNextAligns :
        /\ Walkable(sq, <<first, next>>)
        /\ Loaded(c, sq, <<first, next>>)
        /\ NoCoverage
        /\ NoDo
        /\ NoSearch
        /\ sorted_aligns = <<first, next>>
        /\ aligned_bases_in_contig = count_all_aligned_bases(sorted_aligns, 1, <<0, 0>>)[1]
        /\ pc = "walk"
        /\ i = 0
        /\ last = [labels |-> <<>>]
        /\ cur_aligned_length = first.len2
        /\ contig_aligned_length = 0
        /\ is_misassembled = FALSE
        /\ next_align = first

NextScaffold == WalkPair \/ RecordLast

SpecScaffold == InitScaffold /\ [][NextScaffold]_vars

\* the Ns among the bases between the two alignments of the last pair
LastGapNs == {k \in LastGap : contig_seq[k] = "N"}

\* C22: in scaffolds mode a pair on the same reference and the same strand
\* with |inconsistency| <= scaffolds_gap_threshold is labelled SCAFFOLD_GAP
\* if and only if the stretch of the contig between the two alignments has
\* at least Ns_break_threshold bases and more than 95% of them are N.
C22_ScaffoldGapRule ==
    (/\ PairDone /\ cfg.scaffolds /\ LastSameRef /\ ~LastStrandsDiffer
     /\ Abs(last.aux.inconsistency) <= scaffolds_gap_threshold) =>
        ((last.labels = <<FAKE_SCAFFOLD_GAP>>) <=>
             /\ Cardinality(LastGap) >= Ns_break_threshold
             /\ 100 * Cardinality(LastGapNs) > 95 * Cardinality(LastGap))


(***************************************************************************)
(* SpecSV: process_misassembled_contig on two alignments of a contig that  *)
(* lie at places of a long reference SvStep bases apart, with a BED file   *)
(* of deletions (relocations) or inversions whose breakpoints lie at, just *)
(* within and just beyond max_error of the ends of the alignments.  The    *)
(* cyclic and the fragmented-reference tests are off, so the length of the *)
(* reference is not read.                                                  *)
(***************************************************************************)
SvPlaces == {1, 1 + SvStep}
SvFirstAligns == {Aln("A", s1, 1, AlnLen, fwd) : s1 \in SvPlaces, fwd \in BOOLEAN}
SvNextAligns == {Aln(ref, s1, AlnLen + 1, AlnLen, fwd) :
                    ref \in {"A", "B"}, s1 \in SvPlaces, fwd \in BOOLEAN}
\* find_all_sv, a line with DEL: two one-base breakpoints on one reference,
\* the first at the end of an alignment at the first place, max_error + 1
\* after it, or at the end of an alignment at the second place; the second
\* max_error or max_error + 1 before the second place
Deletions ==
    {<<Bp("A", x, x), Bp("A", y, y)>> :
        x \in {AlnLen, AlnLen + max_error + 1, AlnLen + SvStep},
        y \in {1 + SvStep - max_error, SvStep - max_error}}
    \cup {<<Bp("B", AlnLen, AlnLen), Bp("B", 1 + SvStep - max_error, 1 + SvStep - max_error)>>}
RelocationTables ==
    {[NoSVs EXCEPT !.relocations = v] : v \in UNION {[1..n -> Deletions] : n \in 0..MaxSVs}}
\* find_all_sv, a line with INV: two one-base breakpoints on one reference,
\* each at the end of an alignment at the first place (within max_error of
\* its start and of its end), max_error after it (within max_error of its
\* end only) or max_error + 1 after it
Inversions ==
    {<<Bp(ref, x, x), Bp(ref, y, y)>> :
        ref \in {"A", "B"},
        x \in {AlnLen, AlnLen + max_error, AlnLen + max_error + 1},
        y \in {AlnLen, AlnLen + max_error, AlnLen + max_error + 1}}
InversionTables ==
    {[NoSVs EXCEPT !.inversions = v] :
        v \in UNION {[1..n -> Inversions] : n \in 1..(MaxSVs - 1)}}
SvConfigs ==
    {Config(FALSE, FALSE, FALSE, FALSE, "one", FALSE, FALSE, TRUE, t) :
        t \in RelocationTables \cup InversionTables}

InitSV ==
    \E c \in SvConfigs, first \in SvFirstAligns, next \in SvNextAligns :
        /\ Loaded(c, ContigWithNs(CtgLen, 1, 0), <<first, next>>)
        /\ NoCoverage
        /\ NoDo
        /\ NoSearch
        /\ sorted_aligns = <<first, next>>
        /\ aligned_bases_in_contig = count_all_aligned_bases(sorted_aligns, 1, <<0, 0>>)[1]
        /\ pc = "walk"
        /\ i = 0
        /\ last = [labels |-> <<>>]
        /\ cur_aligned_length = first.len2
        /\ contig_aligned_length = 0
        /\ is_misassembled = FALSE
        /\ next_align = first

NextSV == WalkPair \/ RecordLast

SpecSV == InitSV /\ [][NextSV]_vars

\* the alignment of the last pair that starts earlier on the reference, and
\* the other one
LastEarlier == IF last.align2.s1 < last.align1.s1 THEN last.align2 ELSE last.align1
LastLater == IF last.align2.s1 < last.align1.s1 THEN last.align1 ELSE last.align2
\* pos is within max_error of the breakpoint
Within(pos, bp) == bp.s1 - max_error <= pos /\ pos <= bp.e1 + max_error
\* from the k-th deletion the walk forward reaches the m-th one: each next
\* one is on the reference of the pair and starts at most max_gap after the
\* end of the one before it
Chained(v, k, m) ==
    \A j \in (k + 1)..m :
        /\ v[j][1].ref = LastEarlier.ref
        /\ v[j][1].s1 - v[j - 1][2].e1 <= max_gap
LastRelocationSV ==
    \E k \in 1..Len(cfg.svs.relocations) :
        /\ cfg.svs.relocations[k][1].ref = LastEarlier.ref
        /\ Within(LastEarlier.e1, cfg.svs.relocations[k][1])
        /\ \E m \in k..Len(cfg.svs.relocations) :
               /\ Within(LastLater.s1, cfg.svs.relocations[m][2])
               /\ Chained(cfg.svs.relocations, k, m)

\* C26: a pair on one reference and one strand is matched to a relocation by
\* check_sv exactly when some deletion on the reference of the pair has its
\* first breakpoint within max_error of the end of the earlier alignment and
\* its second breakpoint, or that of a later deletion reached by the walk
\* forward, within max_error of the start of the later alignment; a matched
\* pair is a fake misassembly counted in misassemblies_matched_sv.
C26_RelocationChain ==
    (PairDone /\ LastSameRef /\ ~LastStrandsDiffer) =>
        /\ last.aux.is_sv <=> LastRelocationSV
        /\ last.aux.is_sv => /\ last.labels = <<FAKE_SV>>
                             /\ misassemblies_matched_sv = 1
                             /\ region_misassemblies = <<>>
        /\ ~last.aux.is_sv => misassemblies_matched_sv = 0

\* a pair matched through a chain: the first breakpoint of one deletion and
\* the second breakpoint of a later one
C26_Witness ==
    /\ PairDone /\ LastSameRef /\ ~LastStrandsDiffer
    /\ last.aux.is_sv
    /\ \A k \in 1..Len(cfg.svs.relocations) :
           ~(/\ Within(LastEarlier.e1, cfg.svs.relocations[k][1])
             /\ Within(LastLater.s1, cfg.svs.relocations[k][2]))
\* a pair not matched although a later deletion has the second breakpoint:
\* the chain is broken before it
C26_WitnessBroken ==
    /\ PairDone /\ LastSameRef /\ ~LastStrandsDiffer
    /\ ~last.aux.is_sv
    /\ \E k \in 1..Len(cfg.svs.relocations), m \in 1..Len(cfg.svs.relocations) :
           /\ k < m
           /\ cfg.svs.relocations[k][1].ref = LastEarlier.ref
           /\ Within(LastEarlier.e1, cfg.svs.relocations[k][1])
           /\ Within(LastLater.s1, cfg.svs.relocations[m][2])


\* some inversion on the reference of the pair has its two breakpoints
\* within max_error of the starts of the two alignments, or of their ends
LastInversionSV ==
    \E k \in 1..Len(cfg.svs.inversions) :
        /\ cfg.svs.inversions[k][1].ref = LastEarlier.ref
        /\ \/ /\ Within(LastEarlier.s1, cfg.svs.inversions[k][1])
              /\ Within(LastLater.s1, cfg.svs.inversions[k][2])
           \/ /\ Within(LastEarlier.e1, cfg.svs.inversions[k][1])
              /\ Within(LastLater.e1, cfg.svs.inversions[k][2])

\* C28: check_sv is true for a pair on one reference with different strands
\* and |inconsistency| < extensive_misassembly_threshold only if some
\* inversion on the reference of the pair has its breakpoints within
\* max_error of both starts or of both ends: an inversion recorded on another
\* reference never makes the pair a fake misassembly.
C28_InversionReference ==
    (/\ PairDone /\ LastSameRef /\ LastStrandsDiffer
     /\ Abs(last.aux.inconsistency) < smgap
     /\ last.aux.is_sv) => LastInversionSV
====
